---- MODULE Spec2Model ----
(***************************************************************************)
(* A model of the Kinopoisk search plugin's data path: the formatter       *)
(* (DataFormatter.ts), the template substitution and the file namer        *)
(* (utils.ts).                                                             *)
(*                                                                         *)
(* Representation.  A JavaScript string is a sequence of characters, each  *)
(* character a one-element TLA+ string ("a", ":", "\n"); a character that  *)
(* is not ASCII is written as its code point ("U+041A").  An optional      *)
(* value (a field that may be undefined) is a sequence of length 0         *)
(* (undefined/null) or 1 (the value).  Numbers are integers.               *)
(***************************************************************************)
EXTENDS Integers, Sequences, FiniteSets, TLC

VARIABLES
    \* DataFormatter.formatArray: the call under way
    items, formatType, maxItems, result, fa_pc,
    \* DataFormatter.createMovieShowFrom: the raw record received from the API,
    \* the time zone of the host, the record returned (or the exception)
    movieData, hostTz, normalized, edits, nm_pc,
    \* utils.replaceVariableSyntax: the record (null when absent), the
    \* template text, the text returned (or the exception)
    record, template, fragments, rendered, rv_pc,
    \* utils.makeFileName: the paths of the vault, the language of i18n, the
    \* arguments, the locals of the call and the name returned
    vault, currentLanguage, movie, fileNameFormat, folderPath,
    baseName, cleanedBaseName, copyNumber, fileName, fn_pc,
    \* imageUtils.processImages: the paths of the vault, the settings, the
    \* record given, the copy being updated, the counters, the calls of the
    \* progress callback, the strings turned into image links (with the image
    \* and the outcome of its download), the record returned and whether it
    \* is the object that was given
    imFiles, settings, imMovieShow, updatedMovieShow, totalImages, processedImages,
    successfulDownloads, failedDownloads, progressCalls, linkedPaths,
    imReturned, returnedInput, im_pc,
    \* imageUtils.downloadImage under downloadAndSaveImage: the URLs still to
    \* be asked for, the calls made so far, the attempt of the running call,
    \* the request it awaits, the requests sent and not yet answered, the
    \* number of requests sent
    dlQueue, dlCalls, dlAttempt, awaited, inFlight, requestCount, dl_pc,
    \* KinopoiskProvider: the call made, the requests sent to the API, the
    \* outcome of the call
    pvCall, pvRequests, pvResult, pv_pc,
    \* SearchModal: its fields, whether it is open, the search requests in
    \* flight, and counts of the calls of search(), of the callback and of
    \* the searches that ran to their end
    isBusy, smQuery, smToken, smOpen, smInFlight, searchCalls, callbackCalls, searchesEnded,
    \* createNewNote: the files of the vault, the folder of the notes, and per
    \* workflow the record chosen, the name obtained and the position
    ntVault, ntFolder, ntMovie, ntFileName, nt_pc,
    \* The settings tab: the two settings, the token the armed timer will
    \* validate, the onChange handlers waiting for saveSettings, the
    \* validations in flight, the token of the last validation that ended
    \* with success, and counts of the edits and of the manual checks
    apiToken, apiTokenValid, validationTimeout, stSaving, validations, lastSuccess,
    tokenEdits, manualChecks

faVars == <<items, formatType, maxItems, result, fa_pc>>
nmVars == <<movieData, hostTz, normalized, edits, nm_pc>>
rvVars == <<record, template, fragments, rendered, rv_pc>>
fnVars == <<vault, currentLanguage, movie, fileNameFormat, folderPath,
            baseName, cleanedBaseName, copyNumber, fileName, fn_pc>>
imVars == <<imFiles, settings, imMovieShow, updatedMovieShow, totalImages,
            processedImages, successfulDownloads, failedDownloads, progressCalls,
            linkedPaths, imReturned, returnedInput, im_pc>>
dlVars == <<dlQueue, dlCalls, dlAttempt, awaited, inFlight, requestCount, dl_pc>>
coreVars == <<faVars, nmVars, rvVars, fnVars, imVars>>
pvVars == <<pvCall, pvRequests, pvResult, pv_pc>>
smVars == <<isBusy, smQuery, smToken, smOpen, smInFlight, searchCalls, callbackCalls, searchesEnded>>
ntVars == <<ntVault, ntFolder, ntMovie, ntFileName, nt_pc>>
stVars == <<apiToken, apiTokenValid, validationTimeout, stSaving, validations, lastSuccess,
           tokenEdits, manualChecks>>
xtVars == <<dlVars, pvVars, smVars, ntVars, stVars>>
dlRest == <<coreVars, pvVars, smVars, ntVars, stVars>>
pvRest == <<coreVars, dlVars, smVars, ntVars, stVars>>
smRest == <<coreVars, dlVars, pvVars, ntVars, stVars>>
ntRest == <<coreVars, dlVars, pvVars, smVars, stVars>>
stRest == <<coreVars, dlVars, pvVars, smVars, ntVars>>
vars == <<coreVars, xtVars>>

-----------------------------------------------------------------------------
(* Strings *)

\* The characters of a TLA+ string literal, one per element.
Chars(s) == [i \in 1..Len(s) |-> SubSeq(s, i, i)]

\* An optional value: absent, or present with a value.
None == <<>>
Some(v) == <<v>>
Has(o) == o # <<>>
Val(o) == o[1]

\* What String.prototype.trim and the regular expression class \s strip.
WhiteSpace == {" ", "\t", "\n", "\r"}

Digits == {"0", "1", "2", "3", "4", "5", "6", "7", "8", "9"}
LowerLetters == {"a", "b", "c", "d", "e", "f", "g", "h", "i", "j", "k", "l", "m",
                 "n", "o", "p", "q", "r", "s", "t", "u", "v", "w", "x", "y", "z"}
UpperLetters == {"A", "B", "C", "D", "E", "F", "G", "H", "I", "J", "K", "L", "M",
                 "N", "O", "P", "Q", "R", "S", "T", "U", "V", "W", "X", "Y", "Z"}
\* The regular expression class \w.
WordChars == LowerLetters \cup UpperLetters \cup Digits \cup {"_"}

LowerSeq == Chars("abcdefghijklmnopqrstuvwxyz")
UpperSeq == Chars("ABCDEFGHIJKLMNOPQRSTUVWXYZ")
ToUpperChar(c) ==
    IF c \in LowerLetters
    THEN UpperSeq[CHOOSE i \in 1..26 : LowerSeq[i] = c]
    ELSE c
ToLowerChar(c) ==
    IF c \in UpperLetters
    THEN LowerSeq[CHOOSE i \in 1..26 : UpperSeq[i] = c]
    ELSE c

SetMin(S) == CHOOSE x \in S : \A y \in S : x <= y
SetMax(S) == CHOOSE x \in S : \A y \in S : y <= x

\* String.prototype.trim
Trim(s) ==
    LET keep == {i \in 1..Len(s) : s[i] \notin WhiteSpace}
    IN  IF keep = {} THEN <<>> ELSE SubSeq(s, SetMin(keep), SetMax(keep))

\* s.replace(/[set]/g, "")
RemoveChars(s, set) == SelectSeq(s, LAMBDA c : c \notin set)

StartsWith(s, p) == Len(s) >= Len(p) /\ SubSeq(s, 1, Len(p)) = p
EndsWith(s, p) == Len(s) >= Len(p) /\ SubSeq(s, Len(s) - Len(p) + 1, Len(s)) = p
\* Whether p occurs in s at index i.
MatchAt(s, p, i) == i >= 1 /\ i + Len(p) - 1 <= Len(s) /\ SubSeq(s, i, i + Len(p) - 1) = p
Contains(s, p) == \E i \in 1..(Len(s) + 1) : MatchAt(s, p, i)

RECURSIVE Join(_, _)
\* Array.prototype.join
Join(parts, sep) ==
    IF parts = <<>> THEN <<>>
    ELSE IF Len(parts) = 1 THEN parts[1]
    ELSE parts[1] \o sep \o Join(Tail(parts), sep)

RECURSIVE NatToChars(_)
\* String(n) of a non-negative integer.
NatToChars(n) ==
    LET d == Chars("0123456789")[(n % 10) + 1]
    IN  IF n < 10 THEN <<d>> ELSE Append(NatToChars(n \div 10), d)

-----------------------------------------------------------------------------
(* DataFormatter.ts: the field formatter *)

MAX_ARRAY_ITEMS == 15
MAX_FACTS_COUNT == 5

FormatTypes == {"short", "long", "url", "link"}

\* cleanTextForMetadata: a falsy text gives "", otherwise every colon goes
\* and the ends are trimmed.
CleanFirstColonOnly(text) ==
    LET at == {i \in 1..Len(text) : text[i] = ":"}
    IN  IF at = {} THEN Trim(text)
        ELSE Trim(SubSeq(text, 1, SetMin(at) - 1) \o SubSeq(text, SetMin(at) + 1, Len(text)))
cleanTextForMetadata(text) ==
    IF text = <<>> THEN <<>> ELSE Trim(RemoveChars(text, {":"}))

RECURSIVE CollapseWhiteSpace(_)
\* item.replace(/\n/g, " ").replace(/\s+/g, " "): every maximal run of white
\* space becomes one space.
CollapseWhiteSpace(s) ==
    IF s = <<>> THEN <<>>
    ELSE IF s[1] \in WhiteSpace
         THEN IF Len(s) >= 2 /\ s[2] \in WhiteSpace
              THEN CollapseWhiteSpace(Tail(s))
              ELSE <<" ">> \o CollapseWhiteSpace(Tail(s))
         ELSE <<s[1]>> \o CollapseWhiteSpace(Tail(s))

\* items.filter((item) => item && item.trim() !== ""): the entries of an
\* array of optional strings that are neither null nor blank.
filterItems(its) ==
    LET kept == SelectSeq(its, LAMBDA it : Has(it) /\ Trim(Val(it)) # <<>>)
    IN  [i \in 1..Len(kept) |-> Val(kept[i])]

\* Array.prototype.slice(0, n)
Slice(s, n) == SubSeq(s, 1, IF Len(s) < n THEN Len(s) ELSE n)

formatItem(item, type) ==
    CASE type = "short" -> cleanTextForMetadata(item)
      [] type = "long"  -> <<"\"">> \o Trim(CollapseWhiteSpace(item)) \o <<"\"">>
      [] type = "url"   -> Trim(item)
      [] type = "link"  -> Chars("\"[[") \o cleanTextForMetadata(item) \o Chars("]]\"")
      [] OTHER          -> item

FormatArrayNoSlice(its, type, max) ==
    LET filteredItems == filterItems(its)
    IN  [i \in 1..Len(filteredItems) |-> formatItem(filteredItems[i], type)]
formatArray(its, type, max) ==
    LET filteredItems == Slice(filterItems(its), max)
    IN  [i \in 1..Len(filteredItems) |-> formatItem(filteredItems[i], type)]

-----------------------------------------------------------------------------
(* DataFormatter.ts: the raw record and its normalization *)

\* Optional chaining o?.f: the field f (itself optional) of an optional object.
Field(o, f) == IF Has(o) THEN Val(o)[f] ELSE None
\* n || 0 and s || ""
NumOr0(o) == IF Has(o) THEN Val(o) ELSE 0
StrOrEmpty(o) == IF Has(o) THEN Val(o) ELSE <<>>
Somes(strs) == [i \in 1..Len(strs) |-> Some(strs[i])]

\* The values a MovieShow field holds, tagged with their JavaScript type.
ArrayOf(strs) == [t |-> "array", v |-> strs]
NumberOf(n) == [t |-> "number", v |-> n]
BooleanOf(b) == [t |-> "boolean", v |-> b]
StringOf(s) == [t |-> "string", v |-> s]
Undefined == [t |-> "undefined", v |-> <<>>]
OptNumber(o) == IF Has(o) THEN NumberOf(Val(o)) ELSE Undefined
OptBoolean(o) == IF Has(o) THEN BooleanOf(Val(o)) ELSE Undefined
Entry(key, value) == [k |-> key, v |-> value]

TYPE_TRANSLATIONS(type) ==
    CASE type = Chars("animated-series") ->
            Some(<<"U+0410", "U+043D", "U+0438", "U+043C", "U+0430", "U+0446", "U+0438",
                   "U+043E", "U+043D", "U+043D", "U+044B", "U+0439", " ", "U+0441",
                   "U+0435", "U+0440", "U+0438", "U+0430", "U+043B">>)
      [] type = Chars("anime") ->
            Some(<<"U+0410", "U+043D", "U+0438", "U+043C", "U+0435">>)
      [] type = Chars("cartoon") ->
            Some(<<"U+041C", "U+0443", "U+043B", "U+044C", "U+0442", "U+0444", "U+0438",
                   "U+043B", "U+044C", "U+043C">>)
      [] type = Chars("movie") ->
            Some(<<"U+0424", "U+0438", "U+043B", "U+044C", "U+043C">>)
      [] type = Chars("tv-series") ->
            Some(<<"U+0421", "U+0435", "U+0440", "U+0438", "U+0430", "U+043B">>)
      [] OTHER -> None

translateType(type) ==
    IF Has(TYPE_TRANSLATIONS(type)) THEN Val(TYPE_TRANSLATIONS(type)) ELSE type

\* utils.ts capitalizeFirstLetter, of an optional string (ASCII letters only
\* change case here).
capitalizeFirstLetter(input) ==
    IF ~Has(input) \/ Val(input) = <<>> THEN <<>>
    ELSE <<ToUpperChar(Val(input)[1])>> \o Tail(Val(input))

RECURSIVE Sum(_)
Sum(ns) == IF ns = <<>> THEN 0 ELSE ns[1] + Sum(Tail(ns))
\* Math.floor(a / b) for a >= 0, b > 0
FloorDiv(a, b) == a \div b
\* Math.ceil(a / b) for a >= 0, b > 0
CeilDiv(a, b) == (a + b - 1) \div b

calculateSeasonsData(seasonsInfo) ==
    IF ~Has(seasonsInfo) \/ Val(seasonsInfo) = <<>>
    THEN [count |-> 0, averageEpisodesPerSeason |-> 0]
    ELSE LET seasons == Val(seasonsInfo)
             totalEpisodes == Sum([i \in 1..Len(seasons) |-> seasons[i].episodesCount])
         IN  [count |-> Len(seasons),
              averageEpisodesPerSeason |-> CeilDiv(totalEpisodes, Len(seasons))]

\* The names of the persons whose enProfession is exactly `profession`;
\* a person with no name or no profession is skipped.
peopleOf(persons, profession) ==
    LET named == SelectSeq(persons, LAMBDA p :
                    /\ StrOrEmpty(p.name) # <<>>
                    /\ StrOrEmpty(p.enProfession) # <<>>
                    /\ Val(p.enProfession) = profession)
    IN  [i \in 1..Len(named) |-> Val(named[i].name)]

extractPeople(persons) ==
    [directors |-> peopleOf(persons, Chars("director")),
     actors    |-> peopleOf(persons, Chars("actor")),
     writers   |-> peopleOf(persons, Chars("writer")),
     producers |-> peopleOf(persons, Chars("producer"))]

\* list?.map((x) => x.name).filter((name) => name && name.trim() !== "") || []
namesOf(list) ==
    IF ~Has(list) THEN <<>>
    ELSE filterItems([i \in 1..Len(Val(list)) |-> Val(list)[i].name])

extractCompanies(fullInfo) ==
    [networks            |-> namesOf(Field(fullInfo.networks, "items")),
     productionCompanies |-> namesOf(fullInfo.productionCompanies),
     sequelsAndPrequels  |-> namesOf(fullInfo.sequelsAndPrequels)]

processNames(fullInfo) == [allNames |-> namesOf(fullInfo.names)]

RECURSIVE ReplaceAll(_, _, _)
\* s.replace(new RegExp(pat, "g"), rep) for a literal, non-empty pat and a
\* rep without replacement patterns.
ReplaceAll(s, pat, rep) ==
    IF Len(s) < Len(pat) THEN s
    ELSE IF MatchAt(s, pat, 1)
         THEN rep \o ReplaceAll(SubSeq(s, Len(pat) + 1, Len(s)), pat, rep)
         ELSE <<s[1]>> \o ReplaceAll(Tail(s), pat, rep)

RECURSIVE RemoveTags(_)
\* text.replace(/<[^>]*>/g, "")
RemoveTags(s) ==
    IF s = <<>> THEN <<>>
    ELSE LET close == {i \in 2..Len(s) : s[i] = ">"}
         IN  IF s[1] = "<" /\ close # {}
             THEN RemoveTags(SubSeq(s, SetMin(close) + 1, Len(s)))
             ELSE <<s[1]>> \o RemoveTags(Tail(s))

HTML_ENTITIES ==
    << <<Chars("&laquo;"), <<"U+00AB">> >>,
       <<Chars("&raquo;"), <<"U+00BB">> >>,
       <<Chars("&ldquo;"), <<"\"">> >>,
       <<Chars("&rdquo;"), <<"\"">> >>,
       <<Chars("&lsquo;"), <<"'">> >>,
       <<Chars("&rsquo;"), <<"'">> >>,
       <<Chars("&quot;"), <<"\"">> >>,
       <<Chars("&amp;"), <<"&">> >>,
       <<Chars("&lt;"), <<"<">> >>,
       <<Chars("&gt;"), <<">">> >>,
       <<Chars("&nbsp;"), <<" ">> >>,
       <<Chars("&ndash;"), <<"U+2013">> >>,
       <<Chars("&mdash;"), <<"U+2014">> >>,
       <<Chars("&hellip;"), <<"U+2026">> >> >>

RECURSIVE DecodeEntities(_, _)
\* The entities of the table replaced one after the other, in table order.
DecodeEntities(s, i) ==
    IF i > Len(HTML_ENTITIES) THEN s
    ELSE DecodeEntities(ReplaceAll(s, HTML_ENTITIES[i][1], HTML_ENTITIES[i][2]), i + 1)

\* The length of the match of /&#?\w+;/ at the head of s, 0 when none.
EntityMatchLen(s) ==
    IF s = <<>> \/ s[1] # "&" THEN 0
    ELSE LET from == IF Len(s) >= 2 /\ s[2] = "#" THEN 3 ELSE 2
             stop == {i \in from..Len(s) : s[i] \notin WordChars}
             end  == IF stop = {} THEN Len(s) + 1 ELSE SetMin(stop)
         IN  IF end > from /\ end <= Len(s) /\ s[end] = ";" THEN end ELSE 0

RECURSIVE RemoveEntities(_)
\* text.replace(/&#?\w+;/g, "")
RemoveEntities(s) ==
    IF s = <<>> THEN <<>>
    ELSE IF EntityMatchLen(s) > 0
         THEN RemoveEntities(SubSeq(s, EntityMatchLen(s) + 1, Len(s)))
         ELSE <<s[1]>> \o RemoveEntities(Tail(s))

stripHtmlTags(text) == Trim(RemoveEntities(DecodeEntities(RemoveTags(text), 1)))

processFacts(facts) ==
    LET kept == SelectSeq(facts, LAMBDA fact :
                    /\ ~(Has(fact.spoiler) /\ Val(fact.spoiler))
                    /\ Trim(StrOrEmpty(fact.value)) # <<>>)
        firstFacts == Slice(kept, MAX_FACTS_COUNT)
    IN  [i \in 1..Len(firstFacts) |-> stripHtmlTags(Val(firstFacts[i].value))]

DigitVal(c) == (CHOOSE i \in 1..10 : Chars("0123456789")[i] = c) - 1
IsLeapYear(y) == (y % 4 = 0 /\ y % 100 # 0) \/ y % 400 = 0
DaysInMonth(y, m) ==
    IF m = 2 THEN (IF IsLeapYear(y) THEN 29 ELSE 28)
    ELSE IF m \in {4, 6, 9, 11} THEN 30 ELSE 31

\* new Date(s) for the date-only ISO form YYYY-MM-DD, which is UTC midnight
\* of that day; every other string is an invalid date here.
ParseDate(s) ==
    IF /\ Len(s) = 10
       /\ s[5] = "-" /\ s[8] = "-"
       /\ \A i \in {1, 2, 3, 4, 6, 7, 9, 10} : s[i] \in Digits
    THEN LET y == 1000 * DigitVal(s[1]) + 100 * DigitVal(s[2])
                    + 10 * DigitVal(s[3]) + DigitVal(s[4])
             m == 10 * DigitVal(s[6]) + DigitVal(s[7])
             d == 10 * DigitVal(s[9]) + DigitVal(s[10])
         IN  IF m \in 1..12 /\ d >= 1 /\ d <= DaysInMonth(y, m)
             THEN Some([y |-> y, m |-> m, d |-> d])
             ELSE None
    ELSE None

\* date.getFullYear(): the year in local time, tz hours ahead of UTC
\* (|tz| < 24): UTC midnight of 1 January is the year before when tz < 0.
getFullYear(date, tz) ==
    IF tz < 0 /\ date.m = 1 /\ date.d = 1 THEN date.y - 1 ELSE date.y

Pad2(n) == <<Chars("0123456789")[(n \div 10) + 1], Chars("0123456789")[(n % 10) + 1]>>
\* date.toISOString().split("T")[0], for a year of four digits
toISODate(date) ==
    Pad2(date.y \div 100) \o Pad2(date.y % 100) \o <<"-">> \o Pad2(date.m)
        \o <<"-">> \o Pad2(date.d)

formatDate(dateString, tz) ==
    IF StrOrEmpty(dateString) = <<>> THEN <<>>
    ELSE LET date == ParseDate(Val(dateString))
         IN  IF \/ ~Has(date)
                \/ getFullYear(Val(date), tz) < 1800
                \/ getFullYear(Val(date), tz) > 2100
             THEN <<>>
             ELSE toISODate(Val(date))

createImageLink(imagePath) ==
    IF Trim(imagePath) = <<>> THEN <<>>
    ELSE IF ~StartsWith(imagePath, Chars("http"))
         THEN << Chars("![[") \o imagePath \o Chars("]]") >>
         ELSE << Chars("![](") \o imagePath \o Chars(")") >>

\* imagePath.split("/").pop() || imagePath
lastSegmentOr(imagePath) ==
    LET slashes == {i \in 1..Len(imagePath) : imagePath[i] = "/"}
        last == IF slashes = {} THEN imagePath
                ELSE SubSeq(imagePath, SetMax(slashes) + 1, Len(imagePath))
    IN  IF last = <<>> THEN imagePath ELSE last

\* imageUtils.ts createImageLink: a local path is cut down to its file name.
imageUtils_createImageLink(imagePath) ==
    IF Trim(imagePath) = <<>> THEN <<>>
    ELSE IF ~StartsWith(imagePath, Chars("http"))
         THEN << Chars("![[") \o lastSegmentOr(imagePath) \o Chars("]]") >>
         ELSE << Chars("![](") \o imagePath \o Chars(")") >>

\* formatArray with its default maxItems, as every caller uses it.
fmt(its, type) == formatArray(its, type, MAX_ARRAY_ITEMS)
Money(o, f) == Field(Field(o, f), "value")
Currency(o, f) == Field(Field(o, f), "currency")

\* The object literal of createMovieShowFrom, its properties in source order.
movieShowOf(fullInfo, tz) ==
    LET seasonsData == calculateSeasonsData(fullInfo.seasonsInfo)
        people == extractPeople(IF Has(fullInfo.persons) THEN Val(fullInfo.persons) ELSE <<>>)
        companies == extractCompanies(fullInfo)
        facts == processFacts(IF Has(fullInfo.facts) THEN Val(fullInfo.facts) ELSE <<>>)
        names == processNames(fullInfo)
        firstReleaseYear ==
            IF Has(fullInfo.releaseYears) /\ Val(fullInfo.releaseYears) # <<>>
            THEN Some(Val(fullInfo.releaseYears)[1]) ELSE None
        genres == Val(fullInfo.genres)
        countries == Val(fullInfo.countries)
        genreNames == [i \in 1..Len(genres) |-> Some(capitalizeFirstLetter(genres[i].name))]
        countryNames == [i \in 1..Len(countries) |-> countries[i].name]
        posterUrl == StrOrEmpty(Field(fullInfo.poster, "url"))
        coverUrl == StrOrEmpty(Field(fullInfo.backdrop, "url"))
        logoUrl == StrOrEmpty(Field(fullInfo.logo, "url"))
        release == Field(fullInfo.distributors, "distributorRelease")
    IN  <<
        Entry("id", NumberOf(fullInfo.id)),
        Entry("name", ArrayOf(fmt(<<fullInfo.name>>, "short"))),
        Entry("alternativeName",
              ArrayOf(fmt(<<Some(StrOrEmpty(fullInfo.alternativeName))>>, "short"))),
        Entry("year", OptNumber(fullInfo.year)),
        Entry("description",
              ArrayOf(fmt(<<Some(StrOrEmpty(fullInfo.description))>>, "long"))),
        Entry("shortDescription",
              ArrayOf(fmt(<<Some(StrOrEmpty(fullInfo.shortDescription))>>, "long"))),
        Entry("nameForFile", StringOf(cleanTextForMetadata(StrOrEmpty(fullInfo.name)))),
        Entry("alternativeNameForFile",
              StringOf(cleanTextForMetadata(StrOrEmpty(fullInfo.alternativeName)))),
        Entry("enNameForFile", StringOf(cleanTextForMetadata(StrOrEmpty(fullInfo.enName)))),
        Entry("posterUrl", ArrayOf(fmt(<<Some(posterUrl)>>, "url"))),
        Entry("coverUrl", ArrayOf(fmt(<<Some(coverUrl)>>, "url"))),
        Entry("logoUrl", ArrayOf(fmt(<<Some(logoUrl)>>, "url"))),
        Entry("posterImageLink", ArrayOf(createImageLink(posterUrl))),
        Entry("coverImageLink", ArrayOf(createImageLink(coverUrl))),
        Entry("logoImageLink", ArrayOf(createImageLink(logoUrl))),
        Entry("genres", ArrayOf(fmt(genreNames, "short"))),
        Entry("genresLinks", ArrayOf(fmt(genreNames, "link"))),
        Entry("countries", ArrayOf(fmt(countryNames, "short"))),
        Entry("countriesLinks", ArrayOf(fmt(countryNames, "link"))),
        Entry("type",
              ArrayOf(fmt(<<Some(translateType(StrOrEmpty(fullInfo.type)))>>, "short"))),
        Entry("subType", ArrayOf(fmt(<<Some(StrOrEmpty(fullInfo.subType))>>, "short"))),
        Entry("director", ArrayOf(fmt(Somes(people.directors), "short"))),
        Entry("directorsLinks", ArrayOf(fmt(Somes(people.directors), "link"))),
        Entry("actors", ArrayOf(fmt(Somes(people.actors), "short"))),
        Entry("actorsLinks", ArrayOf(fmt(Somes(people.actors), "link"))),
        Entry("writers", ArrayOf(fmt(Somes(people.writers), "short"))),
        Entry("writersLinks", ArrayOf(fmt(Somes(people.writers), "link"))),
        Entry("producers", ArrayOf(fmt(Somes(people.producers), "short"))),
        Entry("producersLinks", ArrayOf(fmt(Somes(people.producers), "link"))),
        Entry("movieLength", NumberOf(NumOr0(fullInfo.movieLength))),
        Entry("isSeries", OptBoolean(fullInfo.isSeries)),
        Entry("seriesLength", NumberOf(NumOr0(fullInfo.seriesLength))),
        Entry("totalSeriesLength", NumberOf(NumOr0(fullInfo.totalSeriesLength))),
        Entry("isComplete", BooleanOf(StrOrEmpty(fullInfo.status) = Chars("completed"))),
        Entry("seasonsCount", NumberOf(seasonsData.count)),
        Entry("seriesInSeasonCount", NumberOf(seasonsData.averageEpisodesPerSeason)),
        Entry("ratingKp", NumberOf(NumOr0(Field(fullInfo.rating, "kp")))),
        Entry("ratingImdb", NumberOf(NumOr0(Field(fullInfo.rating, "imdb")))),
        Entry("ratingFilmCritics", NumberOf(NumOr0(Field(fullInfo.rating, "filmCritics")))),
        Entry("ratingRussianFilmCritics",
              NumberOf(NumOr0(Field(fullInfo.rating, "russianFilmCritics")))),
        Entry("votesKp", NumberOf(NumOr0(Field(fullInfo.votes, "kp")))),
        Entry("votesImdb", NumberOf(NumOr0(Field(fullInfo.votes, "imdb")))),
        Entry("votesFilmCritics", NumberOf(NumOr0(Field(fullInfo.votes, "filmCritics")))),
        Entry("votesRussianFilmCritics",
              NumberOf(NumOr0(Field(fullInfo.votes, "russianFilmCritics")))),
        Entry("kinopoiskUrl",
              ArrayOf(fmt(<<Some(Chars("https://www.kinopoisk.ru/film/")
                                  \o NatToChars(fullInfo.id) \o Chars("/"))>>, "url"))),
        Entry("imdbId",
              ArrayOf(fmt(<<Some(StrOrEmpty(Field(fullInfo.externalId, "imdb")))>>, "short"))),
        Entry("tmdbId", NumberOf(NumOr0(Field(fullInfo.externalId, "tmdb")))),
        Entry("kpHDId",
              ArrayOf(fmt(<<Some(StrOrEmpty(Field(fullInfo.externalId, "kpHD")))>>, "short"))),
        Entry("slogan", ArrayOf(fmt(<<Some(StrOrEmpty(fullInfo.slogan))>>, "long"))),
        Entry("ageRating", NumberOf(NumOr0(fullInfo.ageRating))),
        Entry("ratingMpaa", ArrayOf(fmt(<<Some(StrOrEmpty(fullInfo.ratingMpaa))>>, "short"))),
        Entry("budgetValue", NumberOf(NumOr0(Field(fullInfo.budget, "value")))),
        Entry("budgetCurrency",
              ArrayOf(fmt(<<Some(StrOrEmpty(Field(fullInfo.budget, "currency")))>>, "short"))),
        Entry("feesWorldValue", NumberOf(NumOr0(Money(fullInfo.fees, "world")))),
        Entry("feesWorldCurrency",
              ArrayOf(fmt(<<Some(StrOrEmpty(Currency(fullInfo.fees, "world")))>>, "short"))),
        Entry("feesRussiaValue", NumberOf(NumOr0(Money(fullInfo.fees, "russia")))),
        Entry("feesRussiaCurrency",
              ArrayOf(fmt(<<Some(StrOrEmpty(Currency(fullInfo.fees, "russia")))>>, "short"))),
        Entry("feesUsaValue", NumberOf(NumOr0(Money(fullInfo.fees, "usa")))),
        Entry("feesUsaCurrency",
              ArrayOf(fmt(<<Some(StrOrEmpty(Currency(fullInfo.fees, "usa")))>>, "short"))),
        Entry("premiereWorld",
              ArrayOf(fmt(<<Some(formatDate(Field(fullInfo.premiere, "world"), tz))>>, "short"))),
        Entry("premiereRussia",
              ArrayOf(fmt(<<Some(formatDate(Field(fullInfo.premiere, "russia"), tz))>>, "short"))),
        Entry("premiereDigital",
              ArrayOf(fmt(<<Some(formatDate(Field(fullInfo.premiere, "digital"), tz))>>, "short"))),
        Entry("premiereCinema",
              ArrayOf(fmt(<<Some(formatDate(Field(fullInfo.premiere, "cinema"), tz))>>, "short"))),
        Entry("releaseYearsStart", NumberOf(NumOr0(Field(firstReleaseYear, "start")))),
        Entry("releaseYearsEnd", NumberOf(NumOr0(Field(firstReleaseYear, "end")))),
        Entry("top10", NumberOf(NumOr0(fullInfo.top10))),
        Entry("top250", NumberOf(NumOr0(fullInfo.top250))),
        Entry("facts", ArrayOf(fmt(Somes(facts), "long"))),
        Entry("allNamesString", ArrayOf(fmt(Somes(names.allNames), "short"))),
        Entry("enName", ArrayOf(fmt(<<Some(StrOrEmpty(fullInfo.enName))>>, "short"))),
        Entry("networks", ArrayOf(fmt(Somes(companies.networks), "short"))),
        Entry("networksLinks", ArrayOf(fmt(Somes(companies.networks), "link"))),
        Entry("productionCompanies",
              ArrayOf(fmt(Somes(companies.productionCompanies), "short"))),
        Entry("productionCompaniesLinks",
              ArrayOf(fmt(Somes(companies.productionCompanies), "link"))),
        Entry("distributor",
              ArrayOf(fmt(<<Some(StrOrEmpty(Field(fullInfo.distributors, "distributor")))>>,
                          "short"))),
        Entry("distributorRelease",
              ArrayOf(fmt(<<Some(IF formatDate(release, tz) # <<>>
                                 THEN formatDate(release, tz)
                                 ELSE StrOrEmpty(release))>>, "short"))),
        Entry("sequelsAndPrequels",
              ArrayOf(fmt(Somes(companies.sequelsAndPrequels), "short"))),
        Entry("sequelsAndPrequelsLinks",
              ArrayOf(fmt(Somes(companies.sequelsAndPrequels), "link")))
        >>

\* What a call returns: a value, or an exception thrown to the caller.
Returned(v) == [threw |-> FALSE, value |-> v]
Thrown == [threw |-> TRUE, value |-> <<>>]

\* createMovieShowFrom: fullInfo.genres.map and fullInfo.countries.map are
\* unguarded property reads, a TypeError when the list is undefined.
createMovieShowFrom(fullInfo, tz) ==
    IF ~Has(fullInfo.genres) \/ ~Has(fullInfo.countries)
    THEN Thrown
    ELSE Returned(movieShowOf(fullInfo, tz))

-----------------------------------------------------------------------------
(* Raw records: the required fields, then optional fields set one at a time *)

\* How many fields of the raw record a run sets beyond the starting record.
MaxEdits == 1

OptionalFields ==
    {"alternativeName", "year", "description", "shortDescription", "enName",
     "poster", "backdrop", "logo", "genres", "countries", "persons", "movieLength",
     "seriesLength", "totalSeriesLength", "status", "seasonsInfo", "rating", "votes",
     "externalId", "slogan", "ageRating", "ratingMpaa", "budget", "fees", "premiere",
     "releaseYears", "top10", "top250", "facts", "names", "networks", "subType",
     "sequelsAndPrequels", "productionCompanies", "distributors"}
RequiredFields == {"id", "name", "type", "isSeries"}

\* The record that carries the required fields and nothing else.
MinimalRecord ==
    [f \in OptionalFields \cup RequiredFields |->
        CASE f = "id" -> 326
          [] f = "name" -> Some(Chars("Inception"))
          [] f = "type" -> Some(Chars("movie"))
          [] f = "isSeries" -> Some(FALSE)
          [] OTHER -> None]
\* The same with the two lists the response type declares as always present.
ListedRecord ==
    [MinimalRecord EXCEPT !["genres"] = Some(<<>>), !["countries"] = Some(<<>>)]

Named(s) == [name |-> Some(Chars(s))]
Person(n, p) == [name |-> n, enProfession |-> p]
Fact(v, sp) == [value |-> Some(Chars(v)), spoiler |-> sp]
Amount(v, c) == Some([value |-> v, currency |-> c])
Scores(a, b) == [kp |-> a, imdb |-> b, filmCritics |-> None, russianFilmCritics |-> None]

FieldSamples(f) ==
    CASE f = "name" -> {Some(Chars("Dune: Part: Two")), Some(Chars("\"[[X]]\""))}
      [] f = "type" -> {Some(Chars("tv-series")), Some(Chars("mini:series")), None}
      [] f = "isSeries" -> {Some(TRUE)}
      [] f = "alternativeName" -> {Some(Chars("Alt: x")), Some(<<>>)}
      [] f = "year" -> {Some(2010), Some(0)}
      [] f = "description" -> {Some(Chars(" A \n\n b: c ")), Some(Chars(" \n"))}
      [] f = "shortDescription" -> {Some(Chars("so \"short\""))}
      [] f = "enName" -> {Some(Chars("En: \"q\""))}
      [] f = "poster" -> {Some([url |-> Some(Chars("https://i/x.jpg"))]),
                          Some([url |-> Some(Chars("attachments/x.jpg"))]),
                          Some([url |-> Some(Chars(" "))]),
                          Some([url |-> None])}
      [] f = "backdrop" -> {Some([url |-> Some(Chars("http://i/b.jpg"))])}
      [] f = "logo" -> {Some([url |-> Some(Chars("img/l.png"))])}
      [] f = "genres" -> {Some(<<>>),
                          Some(<<Named("action"), Named("sci:fi:")>>),
                          Some(<<[name |-> None], Named(" ")>>)}
      [] f = "countries" -> {Some(<<>>),
                             Some(<<Named("USA"), Named("U:K:")>>),
                             Some(<<[name |-> None]>>)}
      [] f = "persons" ->
            {Some(<<Person(Some(Chars("Nolan: C")), Some(Chars("director"))),
                    Person(Some(Chars("Di:Caprio")), Some(Chars("actor"))),
                    Person(Some(Chars("Hardy")), Some(Chars("actor"))),
                    Person(Some(Chars("W:r")), Some(Chars("writer"))),
                    Person(Some(Chars("P:r")), Some(Chars("producer"))),
                    Person(Some(Chars("Zimmer")), Some(Chars("composer"))),
                    Person(None, Some(Chars("actor"))),
                    Person(Some(Chars("Nobody")), None)>>),
             Some(<<>>)}
      [] f = "movieLength" -> {Some(148)}
      [] f = "seriesLength" -> {Some(45)}
      [] f = "totalSeriesLength" -> {Some(450)}
      [] f = "status" -> {Some(Chars("completed")), Some(Chars("ongoing"))}
      [] f = "seasonsInfo" ->
            {Some(<<[number |-> 1, episodesCount |-> 10],
                    [number |-> 2, episodesCount |-> 10],
                    [number |-> 3, episodesCount |-> 11]>>),
             Some(<<[number |-> 1, episodesCount |-> 8]>>),
             Some(<<>>)}
      [] f = "rating" -> {Some(Scores(Some(8), None)), Some(Scores(Some(0), Some(9)))}
      [] f = "votes" -> {Some(Scores(Some(1200), Some(7)))}
      [] f = "externalId" ->
            {Some([imdb |-> Some(Chars("tt:137")), tmdb |-> Some(27205), kpHD |-> None]),
             Some([imdb |-> None, tmdb |-> None, kpHD |-> Some(Chars("4:e"))])}
      [] f = "slogan" -> {Some(Chars("Your mind: the scene"))}
      [] f = "ageRating" -> {Some(12)}
      [] f = "ratingMpaa" -> {Some(Chars("pg:13"))}
      [] f = "budget" -> {Amount(Some(160), Some(Chars("$:"))), Amount(None, None)}
      [] f = "fees" ->
            {Some([world |-> Amount(Some(825), Some(Chars("$"))),
                   russia |-> Amount(Some(21), Some(Chars("R:"))),
                   usa |-> None]),
             Some([world |-> None, russia |-> None,
                   usa |-> Amount(Some(292), Some(Chars(":$")))])}
      [] f = "premiere" ->
            {Some([world |-> Some(Chars("2010-07-08")), russia |-> Some(Chars("soon")),
                   digital |-> Some(Chars("1799-12-31")), cinema |-> None]),
             Some([world |-> Some(Chars("1800-01-01")), russia |-> Some(Chars("2100-12-31")),
                   digital |-> Some(Chars("2101-01-01")), cinema |-> Some(Chars("2100-01-01"))])}
      [] f = "releaseYears" ->
            {Some(<<[start |-> Some(2010), end |-> None]>>),
             Some(<<[start |-> Some(2008), end |-> Some(2013)],
                    [start |-> Some(2020), end |-> Some(2021)]>>),
             Some(<<>>)}
      [] f = "top10" -> {Some(3)}
      [] f = "top250" -> {Some(14)}
      [] f = "facts" ->
            {Some(<<Fact("<b>One</b>: a", Some(FALSE)), Fact("Two &laquo;x&raquo;", None),
                    Fact("spoiled", Some(TRUE)), Fact("Three &amp;lt; &#39;", Some(FALSE)),
                    Fact("Four", Some(FALSE)), Fact("hidden", Some(TRUE)),
                    Fact("Five", Some(FALSE))>>),
             Some(<<Fact("<br>", Some(FALSE)), Fact(" ", Some(FALSE)),
                    [value |-> None, spoiler |-> None]>>),
             Some(<<Fact("<br>", Some(FALSE)), Fact("A", None), Fact("B", None),
                    Fact("C", None), Fact("D", None), Fact("E", None)>>)}
      [] f = "names" -> {Some(<<Named("N:1"), Named(" "), [name |-> None], Named("N2")>>)}
      [] f = "networks" -> {Some([items |-> Some(<<Named("HBO:"), Named("")>>)]),
                            Some([items |-> None])}
      [] f = "subType" -> {Some(Chars("sub:"))}
      [] f = "sequelsAndPrequels" -> {Some(<<Named("Part: 2")>>)}
      [] f = "productionCompanies" -> {Some(<<Named("W:B"), Named("Syncopy")>>)}
      [] f = "distributors" ->
            {Some([distributor |-> Some(Chars("D:")),
                   distributorRelease |-> Some(Chars("2010-07-22"))]),
             Some([distributor |-> None, distributorRelease |-> Some(Chars("soon: 12:00"))])}

\* The hours local time is ahead of UTC.
TimeZones == {-5, 0, 3}

NmStart ==
    /\ movieData \in {MinimalRecord, ListedRecord}
    /\ hostTz \in TimeZones
    /\ normalized = Returned(<<>>)
    /\ edits = 0
    /\ nm_pc = "input"
NmIdle ==
    /\ movieData = MinimalRecord
    /\ hostTz = 0
    /\ normalized = Returned(<<>>)
    /\ edits = 0
    /\ nm_pc = "idle"

\* The API response carries one more field.
SetField(f, v) ==
    /\ nm_pc = "input"
    /\ edits < MaxEdits
    /\ movieData' = [movieData EXCEPT ![f] = v]
    /\ edits' = edits + 1
    /\ UNCHANGED <<hostTz, normalized, nm_pc>>
    /\ UNCHANGED <<faVars, rvVars, fnVars, imVars, xtVars>>

\* provider.getMovieById hands the response to the formatter.
Normalize ==
    /\ nm_pc = "input"
    /\ normalized' = createMovieShowFrom(movieData, hostTz)
    /\ nm_pc' = "done"
    /\ UNCHANGED <<movieData, hostTz, edits>>
    /\ UNCHANGED <<faVars, rvVars, fnVars, imVars, xtVars>>

NmNext ==
    \/ \E f \in OptionalFields \cup {"name", "type", "isSeries"} :
          \E v \in FieldSamples(f) : SetField(f, v)
    \/ Normalize

\* The value of the property `key` of a MovieShow.
Get(movieShow, key) ==
    movieShow[CHOOSE i \in 1..Len(movieShow) : movieShow[i].k = key].v

\* The raw record carries the required fields and no optional one.
LacksEveryOptionalField(raw) == \A f \in OptionalFields : raw[f] = None

\* C1: createMovieShowFrom never raises for a raw record that carries only the
\* required fields (id, name, type, isSeries) and no optional field or
\* sub-object: it always returns a record.
C1_NeverRaisesOnMinimalRecord ==
    (nm_pc = "done" /\ LacksEveryOptionalField(movieData)) => ~normalized.threw

\* C2: for a raw record missing every optional field, the returned record has
\* every sequence field empty and every numeric or boolean field 0 or false.
C2_MinimalRecordGivesEmptyFields ==
    (nm_pc = "done" /\ LacksEveryOptionalField(movieData)) =>
        /\ ~normalized.threw
        /\ \A i \in 1..Len(normalized.value) :
              LET e == normalized.value[i].v
              IN  /\ e.t = "array" => e.v = <<>>
                  /\ e.t = "number" => e.v = 0
                  /\ e.t = "boolean" => e.v = FALSE
                  /\ e.t \in {"array", "number", "boolean", "string"}

\* The properties createMovieShowFrom formats as short values, and as links.
ShortValueFields ==
    {"name", "alternativeName", "genres", "countries", "type", "subType", "director",
     "actors", "writers", "producers", "imdbId", "kpHDId", "ratingMpaa",
     "budgetCurrency", "feesWorldCurrency", "feesRussiaCurrency", "feesUsaCurrency",
     "premiereWorld", "premiereRussia", "premiereDigital", "premiereCinema",
     "allNamesString", "enName", "networks", "productionCompanies", "distributor",
     "distributorRelease", "sequelsAndPrequels"}
LinkFields ==
    {"genresLinks", "countriesLinks", "directorsLinks", "actorsLinks", "writersLinks",
     "producersLinks", "networksLinks", "productionCompaniesLinks",
     "sequelsAndPrequelsLinks"}

HasColon(s) == \E i \in 1..Len(s) : s[i] = ":"

\* C4: in every record the formatter returns, no entry of a short-value field
\* and no entry of a link field contains a colon.
C4_NoColonInShortAndLinkFields ==
    (nm_pc = "done" /\ ~normalized.threw) =>
        \A f \in ShortValueFields \cup LinkFields :
            \A i \in 1..Len(Get(normalized.value, f).v) :
                ~HasColon(Get(normalized.value, f).v[i])

C4_Witness ==
    /\ nm_pc = "done"
    /\ ~normalized.threw
    /\ movieData.genres = Some(<<Named("action"), Named("sci:fi:")>>)
    /\ Get(normalized.value, "genres").v = <<Chars("Action"), Chars("Scifi")>>
    /\ Get(normalized.value, "genresLinks").v
          = <<Chars("\"[[Action]]\""), Chars("\"[[Scifi]]\"")>>

-----------------------------------------------------------------------------
(* utils.ts: template substitution *)

\* A value String() cannot convert (an object without toString): the one
\* value whose encoding throws.
Unprintable == [t |-> "object", v |-> <<>>]

\* The characters the regular expression "." does not match.
LineTerminators == {"\n", "\r", "U+2028", "U+2029"}

\* s.replace(/^"(.*)"$/, "$1")
stripOuterQuotes(s) ==
    IF /\ Len(s) >= 2
       /\ s[1] = "\"" /\ s[Len(s)] = "\""
       /\ \A i \in 2..(Len(s) - 1) : s[i] \notin LineTerminators
    THEN SubSeq(s, 2, Len(s) - 1)
    ELSE s

\* String(v) of a scalar; v || "" first turns 0, false, "" and undefined
\* into "" when `falsyToEmpty`.
stringOfScalar(val, falsyToEmpty) ==
    CASE val.t = "number" ->
            IF val.v = 0 /\ falsyToEmpty THEN <<>> ELSE NatToChars(val.v)
      [] val.t = "boolean" ->
            IF val.v THEN Chars("true")
            ELSE IF falsyToEmpty THEN <<>> ELSE Chars("false")
      [] val.t = "string" -> val.v
      [] OTHER -> <<>>

getPlainValueFromArray(val) ==
    CASE val.t = "array" ->
            Returned(IF val.v = <<>> THEN <<>>
                     ELSE IF Len(val.v) = 1 THEN stripOuterQuotes(val.v[1])
                     ELSE Join([i \in 1..Len(val.v) |-> stripOuterQuotes(val.v[i])],
                               Chars(", ")))
      [] val.t = "number" -> Returned(NatToChars(val.v))
      [] val.t = "object" -> Thrown
      [] OTHER -> Returned(stringOfScalar(val, TRUE))

\* A quoting that wraps every string in quotes, whatever it looks like.
quoteAlways(str) == <<"\"">> \o str \o <<"\"">>

\* The quoting of one string: a markdown image link gets quotes when it has
\* none at either end; a string in quotes has its inner quotes escaped.
quoteOne(str) ==
    IF /\ StartsWith(str, Chars("![[")) \/ StartsWith(str, Chars("![]("))
       /\ ~StartsWith(str, <<"\"">>) /\ ~EndsWith(str, <<"\"">>)
    THEN <<"\"">> \o str \o <<"\"">>
    ELSE IF StartsWith(str, <<"\"">>) /\ EndsWith(str, <<"\"">>)
         THEN <<"\"">> \o ReplaceAll(SubSeq(str, 2, Len(str) - 1), <<"\"">>, Chars("\\\""))
                  \o <<"\"">>
         ELSE str

\* The escaping of a scalar that is already in quotes.
escapeQuoted(str) ==
    IF StartsWith(str, <<"\"">>) /\ EndsWith(str, <<"\"">>)
    THEN <<"\"">> \o ReplaceAll(SubSeq(str, 2, Len(str) - 1), <<"\"">>, Chars("\\\""))
             \o <<"\"">>
    ELSE str

getQuotedValueFromArray(val) ==
    CASE val.t = "array" ->
            Returned(IF val.v = <<>> THEN <<>>
                     ELSE IF Len(val.v) = 1 THEN quoteOne(val.v[1])
                     ELSE Join([i \in 1..Len(val.v) |-> quoteOne(val.v[i])], Chars(", ")))
      [] val.t = "object" -> Thrown
      [] OTHER -> Returned(escapeQuoted(stringOfScalar(val, TRUE)))

\* Whether the pattern, compared without regard to case, occurs in s at i.
MatchAtIgnoreCase(s, pat, i) ==
    /\ i + Len(pat) - 1 <= Len(s)
    /\ \A j \in 1..Len(pat) : ToLowerChar(s[i + j - 1]) = ToLowerChar(pat[j])

RECURSIVE ExpandReplacement(_, _, _, _)
\* The replacement string of String.prototype.replace with its patterns
\* expanded: $$, $&, $` and $' (the expression has no capture group, so $1
\* stays as it is).
ExpandReplacement(rep, matched, before, after) ==
    IF rep = <<>> THEN <<>>
    ELSE IF rep[1] = "$" /\ Len(rep) >= 2 /\ rep[2] \in {"$", "&", "`", "'"}
         THEN (CASE rep[2] = "$" -> <<"$">>
                 [] rep[2] = "&" -> matched
                 [] rep[2] = "`" -> before
                 [] rep[2] = "'" -> after)
              \o ExpandReplacement(SubSeq(rep, 3, Len(rep)), matched, before, after)
         ELSE <<rep[1]>> \o ExpandReplacement(Tail(rep), matched, before, after)

RECURSIVE ReplaceFrom(_, _, _, _)
\* The matches of pat in s from index i on, left to right and not
\* overlapping, each replaced by the expansion of rep; the text put in is
\* not searched again.
ReplaceFrom(s, i, pat, rep) ==
    LET at == {j \in i..Len(s) : s[j] = pat[1] /\ MatchAtIgnoreCase(s, pat, j)}
    IN  IF at = {} THEN SubSeq(s, i, Len(s))
        ELSE LET j == SetMin(at)
             IN  SubSeq(s, i, j - 1)
                 \o ExpandReplacement(rep, SubSeq(s, j, j + Len(pat) - 1),
                                      SubSeq(s, 1, j - 1), SubSeq(s, j + Len(pat), Len(s)))
                 \o ReplaceFrom(s, j + Len(pat), pat, rep)

\* result.replace(new RegExp(`{{${key}}}`, "ig"), value)
replacePlaceholder(s, key, value) ==
    LET pat == Chars("{{") \o Chars(key) \o Chars("}}")
    IN  IF \A j \in 1..Len(s) : s[j] # "{" THEN s ELSE ReplaceFrom(s, 1, pat, value)

\* The length of the match of /{{\w+}}/ at index i of s, 0 when none.
TokenLenAt(s, i) ==
    IF ~MatchAt(s, Chars("{{"), i) THEN 0
    ELSE LET stop == {j \in (i + 2)..Len(s) : s[j] \notin WordChars}
             end  == IF stop = {} THEN Len(s) + 1 ELSE SetMin(stop)
         IN  IF end > i + 2 /\ MatchAt(s, Chars("}}"), end) THEN end + 2 - i ELSE 0

RECURSIVE RemoveTokensFrom(_, _)
RemoveTokensFrom(s, i) ==
    LET at == {j \in i..Len(s) : TokenLenAt(s, j) > 0}
    IN  IF at = {} THEN SubSeq(s, i, Len(s))
        ELSE LET j == SetMin(at)
             IN  SubSeq(s, i, j - 1) \o RemoveTokensFrom(s, j + TokenLenAt(s, j))
\* result.replace(/{{\w+}}/gi, "")
removeUnusedVariables(s) == RemoveTokensFrom(s, 1)

\* The match of /^---\s*\n([\s\S]*?)\n---\s*\n([\s\S]*)$/.  The opening line
\* ends at a line feed p reached from the three hyphens through white space
\* only (the longest such reach that lets the rest match); the closing
\* delimiter is the first "\n---" after it that white space and a line feed
\* follow, and its line ends at the last line feed of that white space.
OpeningEnds(text) ==
    IF ~StartsWith(text, Chars("---")) THEN {}
    ELSE {p \in 4..Len(text) :
            text[p] = "\n" /\ \A i \in 4..(p - 1) : text[i] \in WhiteSpace}
ClosingEnds(text, q) ==
    IF ~MatchAt(text, Chars("\n---"), q) THEN {}
    ELSE {r \in (q + 4)..Len(text) :
            text[r] = "\n" /\ \A i \in (q + 4)..(r - 1) : text[i] \in WhiteSpace}
ClosingStarts(text, p) == {q \in (p + 1)..Len(text) : ClosingEnds(text, q) # {}}

frontmatterMatch(text) ==
    LET opens == {p \in OpeningEnds(text) : ClosingStarts(text, p) # {}}
    IN  IF opens = {} THEN None
        ELSE LET p == SetMax(opens)
                 q == SetMin(ClosingStarts(text, p))
                 r == SetMax(ClosingEnds(text, q))
             IN  Some([frontmatter |-> SubSeq(text, p + 1, q - 1),
                       body |-> SubSeq(text, r + 1, Len(text))])

\* One step of the reduce over Object.entries(movieShow): the callback's
\* try/catch returns the text as it was when the encoding throws.
SubstituteAbortOnThrow(acc, entry, encoded) ==
    IF encoded.threw THEN Thrown
    ELSE Returned(replacePlaceholder(acc.value, entry.k, encoded.value))
substituteEntry(acc, entry, encoded) ==
    IF encoded.threw THEN acc
    ELSE Returned(replacePlaceholder(acc.value, entry.k, encoded.value))

RECURSIVE reduceQuoted(_, _, _)
\* Object.entries(movieShow).reduce(..., frontmatter), from entry i on; an
\* exception that escapes a callback ends the reduce.
reduceQuoted(entries, i, acc) ==
    IF i > Len(entries) \/ acc.threw THEN acc
    ELSE reduceQuoted(entries, i + 1,
            substituteEntry(acc, entries[i], getQuotedValueFromArray(entries[i].v)))
RECURSIVE reducePlain(_, _, _)
reducePlain(entries, i, acc) ==
    IF i > Len(entries) \/ acc.threw THEN acc
    ELSE reducePlain(entries, i + 1,
            substituteEntry(acc, entries[i], getPlainValueFromArray(entries[i].v)))

\* The body of the outer try block; Object.entries throws on a null record.
renderOrThrow(movieShow, text) ==
    IF ~Has(movieShow) THEN Thrown
    ELSE LET entries == Val(movieShow)
             match == frontmatterMatch(text)
         IN  IF Has(match)
             THEN LET processedFrontmatter ==
                          reduceQuoted(entries, 1, Returned(Val(match).frontmatter))
                      processedBody == reducePlain(entries, 1, Returned(Val(match).body))
                  IN  IF processedFrontmatter.threw \/ processedBody.threw THEN Thrown
                      ELSE Returned(Trim(removeUnusedVariables(
                              Chars("---\n") \o processedFrontmatter.value
                                  \o Chars("\n---\n") \o processedBody.value)))
             ELSE LET processed == reducePlain(entries, 1, Returned(text))
                  IN  IF processed.threw THEN Thrown
                      ELSE Returned(Trim(removeUnusedVariables(processed.value)))

\* replaceVariableSyntax: a blank text gives ""; the outer catch returns
\* the text it was given.
replaceVariableSyntax(movieShow, text) ==
    IF Trim(text) = <<>> THEN Returned(<<>>)
    ELSE LET attempt == renderOrThrow(movieShow, text)
         IN  IF attempt.threw THEN Returned(text) ELSE attempt

-----------------------------------------------------------------------------
(* Renders of bounded templates against sample records *)

\* The fragments a template is put together from, at most.
MaxFragments == 3

RichRecord ==
    [ListedRecord EXCEPT
        !["genres"] = Some(<<Named("action"), Named("drama")>>),
        !["year"] = Some(2010),
        !["description"] = Some(Chars("A \"dream\": heist")),
        !["poster"] = Some([url |-> Some(Chars("https://i/x.jpg"))])]

\* The record with the value of one property replaced.
With(movieShow, key, value) ==
    [i \in 1..Len(movieShow) |->
        IF movieShow[i].k = key THEN Entry(key, value) ELSE movieShow[i]]
Without(movieShow, keys) == SelectSeq(movieShow, LAMBDA e : e.k \notin keys)

RecordSamples ==
    << Some(movieShowOf(RichRecord, 0)),
       Some(movieShowOf(ListedRecord, 0)),
       Some(With(movieShowOf(RichRecord, 0), "year", Unprintable)),
       None >>

HeaderBlock == Chars("---\ng: {{genres}}\nl: {{genresLinks}}\ny: {{year}}\n---")
Placeholders == Chars("{{Genres}}|{{genreslinks}}|{{year}}")
UnknownToken == Chars("{{nosuch}}")
NestedToken == Chars("{{{{a}}b}}")
Fragments ==
    {HeaderBlock, Chars("\n"), Placeholders, UnknownToken, NestedToken, Chars("---\n")}

RvStart ==
    /\ \E i \in 1..Len(RecordSamples) : record = RecordSamples[i]
    /\ template = <<>>
    /\ fragments = 0
    /\ rendered = Returned(<<>>)
    /\ rv_pc = "input"
RvIdle ==
    /\ record = None
    /\ template = <<>>
    /\ fragments = 0
    /\ rendered = Returned(<<>>)
    /\ rv_pc = "idle"

\* The template file holds one more fragment of text.
AppendFragment(frag) ==
    /\ rv_pc = "input"
    /\ fragments < MaxFragments
    /\ template' = template \o frag
    /\ fragments' = fragments + 1
    /\ UNCHANGED <<record, rendered, rv_pc>>
    /\ UNCHANGED <<faVars, nmVars, fnVars, imVars, xtVars>>

Render ==
    /\ rv_pc = "input"
    /\ rendered' = replaceVariableSyntax(record, template)
    /\ rv_pc' = "done"
    /\ UNCHANGED <<record, template, fragments>>
    /\ UNCHANGED <<faVars, nmVars, fnVars, imVars, xtVars>>

RvNext ==
    \/ \E frag \in Fragments : AppendFragment(frag)
    \/ Render

\* Records whose texts look like template syntax, and numbers that are 0.
SubstituteSamples ==
    << Some(movieShowOf([RichRecord EXCEPT
                            !["name"] = Some(Chars("{{year}}")),
                            !["description"] = Some(Chars("$& {{nosuch}}"))], 0)),
       Some(movieShowOf(ListedRecord, 0)),
       Some(movieShowOf([RichRecord EXCEPT
                            !["rating"] = Some(Scores(Some(8), None))], 0)) >>

RatingHeader == Chars("---\nr: {{ratingKp}}\n---\n")
RatingToken == Chars("{{ratingKp}}")
NameToken == Chars("{{name}}|")
DescriptionToken == Chars("{{description}}|")
YearToken == Chars("{{year}}")
ValueFragments == {RatingHeader, RatingToken, NameToken, DescriptionToken, YearToken}

SbStart ==
    /\ \E i \in 1..Len(SubstituteSamples) : record = SubstituteSamples[i]
    /\ template = <<>>
    /\ fragments = 0
    /\ rendered = Returned(<<>>)
    /\ rv_pc = "input"

\* The template file holds one more placeholder.
AppendValueFragment(frag) ==
    /\ rv_pc = "input"
    /\ fragments < MaxFragments
    /\ template' = template \o frag
    /\ fragments' = fragments + 1
    /\ UNCHANGED <<record, rendered, rv_pc>>
    /\ UNCHANGED <<faVars, nmVars, fnVars, imVars, xtVars>>

SbNext ==
    \/ \E frag \in ValueFragments : AppendValueFragment(frag)
    \/ Render

-----------------------------------------------------------------------------
(* i18n.ts and utils.ts: the name of the note's file *)

SupportedLanguages == {"en", "ru"}

\* The entries of the translation tables that makeFileName reads.
translations(lang, key) ==
    CASE lang = "en" /\ key = "utils.unknownMovie" -> Some(Chars("Unknown Movie"))
      [] lang = "en" /\ key = "utils.copyPrefix" -> Some(Chars("Copy"))
      [] lang = "ru" /\ key = "utils.unknownMovie" ->
            Some(<<"U+041D", "U+0435", "U+0438", "U+0437", "U+0432", "U+0435", "U+0441",
                   "U+0442", "U+043D", "U+044B", "U+0439", " ", "U+0444", "U+0438",
                   "U+043B", "U+044C", "U+043C">>)
      [] lang = "ru" /\ key = "utils.copyPrefix" ->
            Some(<<"U+041A", "U+043E", "U+043F", "U+0438", "U+044F">>)
      [] OTHER -> None

\* t(key): the translation in the current language, the key when none.
t(lang, key) ==
    IF Has(translations(lang, key)) THEN Val(translations(lang, key)) ELSE Chars(key)

\* The set of the expression [\\/:*?"<>|].
IllegalFileNameCharacters == {"\\", "/", ":", "*", "?", "\"", "<", ">", "|"}

\* The stripping that leaves the question mark in place.
StripAllButQuestionMark(text) == RemoveChars(text, IllegalFileNameCharacters \ {"?"})

replaceIllegalFileNameCharactersInString(text) ==
    RemoveChars(text, IllegalFileNameCharacters)

\* F applied to the value of v, which is computed once.
Bind(v, F(_)) == CHOOSE r \in {F(x) : x \in {v}} : TRUE

\* path.replace(/([\\/])+/g, "/"): a run of slashes becomes one slash.
CollapseSlashes(path) ==
    Bind(path, LAMBDA p :
        Bind(SelectSeq([i \in 1..Len(p) |-> i],
                       LAMBDA i : \/ p[i] \notin {"/", "\\"}
                                  \/ i = 1
                                  \/ p[i - 1] \notin {"/", "\\"}),
             LAMBDA keep :
                [k \in 1..Len(keep) |->
                    IF p[keep[k]] \in {"/", "\\"} THEN "/" ELSE p[keep[k]]]))

\* normalizePath of the obsidian module: runs of slashes become one slash, the
\* slashes at both ends go, no-break spaces become spaces.
normalizePath(path) ==
    Bind(CollapseSlashes(path), LAMBDA one :
        Bind({i \in 1..Len(one) : one[i] # "/"}, LAMBDA inner :
            IF inner = {} THEN <<"/">>
            ELSE Bind(SubSeq(one, SetMin(inner), SetMax(inner)), LAMBDA cut :
                    [i \in 1..Len(cut) |->
                        IF cut[i] \in {"U+00A0", "U+202F"} THEN " " ELSE cut[i]])))

\* folderPath ? `${folderPath}/${name}` : name
fullPathOf(folder, name) ==
    IF Has(folder) /\ Val(folder) # <<>> THEN Val(folder) \o <<"/">> \o name ELSE name

\* vault.getAbstractFileByPath(normalizePath(fullPath)) is not null
existsInVault(files, folder, name) == normalizePath(fullPathOf(folder, name)) \in files

\* `${value || t("utils.unknownMovie")}` of one property of the record.
textOrUnknown(val, lang) ==
    CASE val.t = "object" -> Thrown
      [] val.t = "array" -> Returned(Join(val.v, <<",">>))
      [] OTHER -> Returned(IF stringOfScalar(val, TRUE) = <<>>
                           THEN t(lang, "utils.unknownMovie")
                           ELSE stringOfScalar(val, TRUE))

\* The base name: the format rendered against the record, or name and year.
baseNameOf(movieShow, format, lang) ==
    IF Has(format) /\ Val(format) # <<>>
    THEN replaceVariableSyntax(movieShow, Val(format))
    ELSE IF ~Has(movieShow) THEN Thrown
    ELSE LET n == textOrUnknown(Get(Val(movieShow), "nameForFile"), lang)
             y == textOrUnknown(Get(Val(movieShow), "year"), lang)
         IN  IF n.threw \/ y.threw THEN Thrown
             ELSE Returned(n.value \o Chars(" (") \o y.value \o Chars(")"))

unknownFileName(lang) == t(lang, "utils.unknownMovie") \o Chars(".md")

\* A name that numbers the copies from 2.
CopyNameFromTwo(cleaned, lang, n) ==
    cleaned \o Chars(" (") \o t(lang, "utils.copyPrefix") \o Chars("[")
        \o NatToChars(n + 1) \o Chars("]).md")

\* `${cleanedBaseName} (${t("utils.copyPrefix")}[${copyNumber}]).md`
copyFileNameOf(cleaned, lang, n) ==
    cleaned \o Chars(" (") \o t(lang, "utils.copyPrefix") \o Chars("[")
        \o NatToChars(n) \o Chars("]).md")

\* The files the vault holds, at most.
MaxFiles == 3

PathSamples ==
    { Chars("Inception (2010).md"),
      Chars("Inception (2010) (Copy[1]).md"),
      Chars("Inception (2010) (Copy[2]).md"),
      Chars("Films/Inception (2010).md"),
      Chars("Films/Inception (2010) (Copy[1]).md"),
      Chars("Inception (2010) (") \o t("ru", "utils.copyPrefix") \o Chars("[1]).md"),
      Chars("Unknown Movie.md") }

MovieSamples ==
    << Some(movieShowOf(RichRecord, 0)),
       Some(movieShowOf([ListedRecord EXCEPT !["name"] = Some(Chars("What/If?"))], 0)),
       None >>

FormatSamples ==
    { None, Some(<<>>), Some(Chars("{{nameForFile}} ({{year}})")),
      Some(Chars("{{year}}: <{{name}}>?")), Some(Chars(":*?")) }

FolderSamples == { None, Some(Chars("Films")) }

FnStart ==
    /\ vault = {}
    /\ currentLanguage \in SupportedLanguages
    /\ \E i \in 1..Len(MovieSamples) : movie = MovieSamples[i]
    /\ fileNameFormat \in FormatSamples
    /\ folderPath \in FolderSamples
    /\ baseName = None
    /\ cleanedBaseName = None
    /\ copyNumber = 0
    /\ fileName = None
    /\ fn_pc = "input"
FnIdle ==
    /\ vault = {}
    /\ currentLanguage = "en"
    /\ movie = None
    /\ fileNameFormat = None
    /\ folderPath = None
    /\ baseName = None
    /\ cleanedBaseName = None
    /\ copyNumber = 0
    /\ fileName = None
    /\ fn_pc = "idle"

\* The vault holds one more file.
CreateFile(path) ==
    /\ fn_pc = "input"
    /\ Cardinality(vault) < MaxFiles
    /\ path \notin vault
    /\ vault' = vault \cup {path}
    /\ UNCHANGED <<currentLanguage, movie, fileNameFormat, folderPath,
                   baseName, cleanedBaseName, copyNumber, fileName, fn_pc>>
    /\ UNCHANGED <<faVars, nmVars, rvVars, imVars, xtVars>>

\* makeFileName up to the loop: the base name, its stripping, the check that
\* the name is free; an exception gives the placeholder name.
MakeFileName ==
    /\ fn_pc = "input"
    /\ LET base == baseNameOf(movie, fileNameFormat, currentLanguage)
           cleaned == replaceIllegalFileNameCharactersInString(base.value)
       IN  IF base.threw
           THEN /\ fileName' = Some(unknownFileName(currentLanguage))
                /\ fn_pc' = "done"
                /\ UNCHANGED <<baseName, cleanedBaseName, copyNumber>>
           ELSE /\ baseName' = Some(base.value)
                /\ cleanedBaseName' = Some(cleaned)
                /\ IF Trim(cleaned) = <<>>
                   THEN /\ fileName' = Some(unknownFileName(currentLanguage))
                        /\ fn_pc' = "done"
                        /\ UNCHANGED copyNumber
                   ELSE IF ~existsInVault(vault, folderPath, cleaned \o Chars(".md"))
                   THEN /\ fileName' = Some(cleaned \o Chars(".md"))
                        /\ fn_pc' = "done"
                        /\ UNCHANGED copyNumber
                   ELSE /\ copyNumber' = 1
                        /\ fn_pc' = "loop"
                        /\ UNCHANGED fileName
    /\ UNCHANGED <<vault, currentLanguage, movie, fileNameFormat, folderPath>>
    /\ UNCHANGED <<faVars, nmVars, rvVars, imVars, xtVars>>

\* A turn of the loop that forgets to raise the number.
TryCopyNameSameNumber ==
    /\ fn_pc = "loop"
    /\ LET copyFileName == copyFileNameOf(Val(cleanedBaseName), currentLanguage, copyNumber)
       IN  IF existsInVault(vault, folderPath, copyFileName)
           THEN UNCHANGED <<fileName, fn_pc>>
           ELSE fileName' = Some(copyFileName) /\ fn_pc' = "done"
    /\ UNCHANGED <<vault, currentLanguage, movie, fileNameFormat, folderPath,
                   baseName, cleanedBaseName, copyNumber>>
    /\ UNCHANGED <<faVars, nmVars, rvVars, imVars, xtVars>>

\* One turn of the do-while loop: the name of the next copy, the number
\* raised, the check that ends the loop when the name is free.
TryCopyName ==
    /\ fn_pc = "loop"
    /\ LET copyFileName == copyFileNameOf(Val(cleanedBaseName), currentLanguage, copyNumber)
       IN  /\ copyNumber' = copyNumber + 1
           /\ IF existsInVault(vault, folderPath, copyFileName)
              THEN UNCHANGED <<fileName, fn_pc>>
              ELSE fileName' = Some(copyFileName) /\ fn_pc' = "done"
    /\ UNCHANGED <<vault, currentLanguage, movie, fileNameFormat, folderPath,
                   baseName, cleanedBaseName>>
    /\ UNCHANGED <<faVars, nmVars, rvVars, imVars, xtVars>>

FnNext ==
    \/ \E path \in PathSamples : CreateFile(path)
    \/ MakeFileName
    \/ TryCopyName

-----------------------------------------------------------------------------
(* imageUtils.ts: the images saved into the vault *)

SUPPORTED_EXTENSIONS ==
    {Chars("jpg"), Chars("jpeg"), Chars("png"), Chars("gif"), Chars("webp"),
     Chars("svg"), Chars("bmp")}

\* MIME_TO_EXTENSION_MAP[mimeType], None when the type is not a key.
MIME_TO_EXTENSION_MAP(mimeType) ==
    CASE mimeType = Chars("image/jpeg") -> Some(Chars("jpg"))
      [] mimeType = Chars("image/jpg") -> Some(Chars("jpg"))
      [] mimeType = Chars("image/png") -> Some(Chars("png"))
      [] mimeType = Chars("image/gif") -> Some(Chars("gif"))
      [] mimeType = Chars("image/webp") -> Some(Chars("webp"))
      [] mimeType = Chars("image/svg+xml") -> Some(Chars("svg"))
      [] mimeType = Chars("image/bmp") -> Some(Chars("bmp"))
      [] OTHER -> None

\* new URL(url) does not throw, for the texts met here: a scheme, "//" and a
\* host that is not empty.
ParsesAsUrl(url) ==
    \E scheme \in {Chars("http://"), Chars("https://"), Chars("ftp://")} :
        /\ StartsWith(url, scheme)
        /\ Len(url) > Len(scheme)
        /\ url[Len(scheme) + 1] \notin {"/", "?", "#"} \cup WhiteSpace

isValidImageUrl(url) ==
    /\ Trim(url) # <<>>
    /\ ParsesAsUrl(url)
    /\ StartsWith(url, Chars("http://")) \/ StartsWith(url, Chars("https://"))

getImageExtension(url, mimeType) ==
    IF Has(mimeType) /\ Has(MIME_TO_EXTENSION_MAP(Val(mimeType)))
    THEN Val(MIME_TO_EXTENSION_MAP(Val(mimeType)))
    ELSE LET dots == {i \in 1..Len(url) : url[i] = "."}
             tail == IF dots = {} THEN url ELSE SubSeq(url, SetMax(dots) + 1, Len(url))
             urlExtension == [i \in 1..Len(tail) |-> ToLowerChar(tail[i])]
         IN  IF urlExtension \in SUPPORTED_EXTENSIONS THEN urlExtension ELSE Chars("jpg")

\* `${value}` of a property of the record inside a template literal.
templateText(val) ==
    CASE val.t = "undefined" -> Chars("undefined")
      [] val.t = "array" -> Join(val.v, <<",">>)
      [] OTHER -> stringOfScalar(val, FALSE)

createImageFileName(movieShow, imageType, extension) ==
    replaceIllegalFileNameCharactersInString(
        templateText(Get(movieShow, "nameForFile")) \o <<"_">>
            \o templateText(Get(movieShow, "year")) \o <<"_">> \o Chars(imageType))
      \o <<".">> \o extension

\* basePath_counter.extension of saveImageToVault.
numberedPath(fullPath, counter) ==
    LET dots == {i \in 1..Len(fullPath) : fullPath[i] = "."}
    IN  IF dots = {} THEN <<"_">> \o NatToChars(counter) \o <<".">> \o fullPath
        ELSE SubSeq(fullPath, 1, SetMax(dots) - 1) \o <<"_">> \o NatToChars(counter)
                \o SubSeq(fullPath, SetMax(dots), Len(fullPath))

\* The path saveImageToVault writes: the full path, or the first numbered
\* one that the vault does not hold.
finalPathOf(files, fullPath) ==
    IF fullPath \notin files THEN fullPath
    ELSE numberedPath(fullPath,
            SetMin({c \in 1..(Cardinality(files) + 1) : numberedPath(fullPath, c) \notin files}))

\* The path downloadAndSaveImage returns when the download and the save
\* succeed.
savedPathOf(files, movieShow, url, mimeType, imageType, folder) ==
    finalPathOf(files,
        normalizePath(folder \o <<"/">>
            \o createImageFileName(movieShow, imageType, getImageExtension(url, mimeType))))

\* The first URL of a URL field, "" when there is none.
firstUrl(movieShow, key) ==
    LET urls == Get(movieShow, key).v
    IN  IF urls = <<>> THEN <<>> ELSE urls[1]

\* The link of the logo is written over the URL of the poster.
ImageKindsLogoOverPoster ==
    << [type |-> "poster", url |-> "posterUrl", link |-> "posterImageLink",
        save |-> "savePosterImage"],
       [type |-> "cover", url |-> "coverUrl", link |-> "coverImageLink",
        save |-> "saveCoverImage"],
       [type |-> "logo", url |-> "logoUrl", link |-> "posterUrl",
        save |-> "saveLogoImage"] >>
ImageKinds ==
    << [type |-> "poster", url |-> "posterUrl", link |-> "posterImageLink",
        save |-> "savePosterImage"],
       [type |-> "cover", url |-> "coverUrl", link |-> "coverImageLink",
        save |-> "saveCoverImage"],
       [type |-> "logo", url |-> "logoUrl", link |-> "logoImageLink",
        save |-> "saveLogoImage"] >>

\* Whether processImages looks at the image at all: its setting is on and
\* its URL field holds a first entry that is not empty.
isEnabled(movieShow, conf, kind) ==
    conf[kind.save] /\ firstUrl(movieShow, kind.url) # <<>>

\* Every image whose setting is on is counted, whatever its URL.
countEnabledImages(movieShow, conf) ==
    Cardinality({i \in 1..Len(ImageKinds) : isEnabled(movieShow, conf, ImageKinds[i])})
countImagesToDownload(movieShow, conf) ==
    Cardinality({i \in 1..Len(ImageKinds) :
        /\ isEnabled(movieShow, conf, ImageKinds[i])
        /\ isValidImageUrl(firstUrl(movieShow, ImageKinds[i].url))})

\* A raw record with a remote poster, a remote backdrop and a local logo.
PicturedRecord ==
    [RichRecord EXCEPT
        !["backdrop"] = Some([url |-> Some(Chars("http://i/b.png"))]),
        !["logo"] = Some([url |-> Some(Chars("img/l.png"))])]

ImageRecordSamples ==
    << movieShowOf(PicturedRecord, 0),
       movieShowOf(ListedRecord, 0),
       movieShowOf([ListedRecord EXCEPT
                        !["logo"] = Some([url |-> Some(Chars("img/l.png"))])], 0) >>

FolderNames == {Chars("attachments/kinopoisk"), <<>>}
FileSamples == {{}, {Chars("attachments/kinopoisk/Inception_2010_poster.jpg")}}
MimeSamples == {None, Some(Chars("image/png"))}

ImStart ==
    /\ imFiles \in FileSamples
    /\ settings \in [saveImagesLocally : BOOLEAN, savePosterImage : BOOLEAN,
                     saveCoverImage : BOOLEAN, saveLogoImage : BOOLEAN,
                     imagesFolder : FolderNames]
    /\ \E i \in 1..Len(ImageRecordSamples) : imMovieShow = ImageRecordSamples[i]
    /\ updatedMovieShow = <<>>
    /\ totalImages = 0
    /\ processedImages = 0
    /\ successfulDownloads = 0
    /\ failedDownloads = 0
    /\ progressCalls = <<>>
    /\ linkedPaths = <<>>
    /\ imReturned = None
    /\ returnedInput = FALSE
    /\ im_pc = "input"
ImIdle ==
    /\ imFiles = {}
    /\ settings = [saveImagesLocally |-> FALSE, savePosterImage |-> FALSE,
                   saveCoverImage |-> FALSE, saveLogoImage |-> FALSE,
                   imagesFolder |-> <<>>]
    /\ imMovieShow = <<>>
    /\ updatedMovieShow = <<>>
    /\ totalImages = 0
    /\ processedImages = 0
    /\ successfulDownloads = 0
    /\ failedDownloads = 0
    /\ progressCalls = <<>>
    /\ linkedPaths = <<>>
    /\ imReturned = None
    /\ returnedInput = FALSE
    /\ im_pc = "idle"

\* processImages up to its first download: the early returns, the copy of
\* the record, the count of the images to download.
ProcessImages ==
    /\ im_pc = "input"
    /\ IF ~settings.saveImagesLocally
       THEN /\ imReturned' = Some(imMovieShow)
            /\ returnedInput' = TRUE
            /\ im_pc' = "done"
            /\ UNCHANGED <<updatedMovieShow, totalImages, progressCalls>>
       ELSE /\ updatedMovieShow' = imMovieShow
            /\ totalImages' = countImagesToDownload(imMovieShow, settings)
            /\ IF countImagesToDownload(imMovieShow, settings) = 0
               THEN /\ progressCalls' = <<[current |-> 0, total |-> 0]>>
                    /\ imReturned' = Some(imMovieShow)
                    /\ returnedInput' = TRUE
                    /\ im_pc' = "done"
               ELSE /\ im_pc' = "image1"
                    /\ UNCHANGED <<progressCalls, imReturned, returnedInput>>
    /\ UNCHANGED <<imFiles, settings, imMovieShow, processedImages,
                   successfulDownloads, failedDownloads, linkedPaths>>
    /\ UNCHANGED <<faVars, nmVars, rvVars, fnVars, xtVars>>

Linked(imageType, path, outcome) ==
    [image |-> imageType, path |-> path, outcome |-> outcome]

\* After the first image the final progress call follows at once.
PcSkipRest(k) == IF k = 1 THEN "image1" ELSE "final"
PcOfImage(k) == CASE k = 1 -> "image1" [] k = 2 -> "image2" [] k = 3 -> "image3"
                  [] OTHER -> "final"

\* The block of processImages for one image: skipped when the image is not
\* enabled; a URL that is not a valid HTTP(S) one is linked as it is; else
\* the image is downloaded and saved (outcome "saved", with the content type
\* of the response), or the download fails (outcome "failed"), or the folder
\* is made and the write of the file fails (outcome "unsaved").
ProcessOneImage(k, outcome, mimeType) ==
    /\ im_pc = PcOfImage(k)
    /\ k \in 1..Len(ImageKinds)
    /\ LET kind == ImageKinds[k]
           url == firstUrl(imMovieShow, kind.url)
           localPath == savedPathOf(imFiles, imMovieShow, url, mimeType, kind.type,
                                    settings.imagesFolder)
       IN  IF ~isEnabled(imMovieShow, settings, kind)
           THEN /\ outcome = "none" /\ mimeType = None
                /\ UNCHANGED <<imFiles, updatedMovieShow, processedImages,
                               successfulDownloads, failedDownloads, progressCalls,
                               linkedPaths>>
           ELSE IF ~isValidImageUrl(url)
           THEN /\ outcome = "none" /\ mimeType = None
                /\ updatedMovieShow' = With(updatedMovieShow, kind.link,
                                            ArrayOf(imageUtils_createImageLink(url)))
                /\ linkedPaths' = Append(linkedPaths, Linked(kind.type, url, "local"))
                /\ UNCHANGED <<imFiles, processedImages, successfulDownloads,
                               failedDownloads, progressCalls>>
           ELSE /\ progressCalls' = Append(progressCalls,
                        [current |-> processedImages + 1, total |-> totalImages])
                /\ processedImages' = processedImages + 1
                /\ \/ /\ outcome = "saved"
                      /\ imFiles' = imFiles \cup {normalizePath(settings.imagesFolder),
                                                  localPath}
                      /\ updatedMovieShow' = With(updatedMovieShow, kind.link,
                                                  ArrayOf(imageUtils_createImageLink(localPath)))
                      /\ linkedPaths' = Append(linkedPaths,
                                               Linked(kind.type, localPath, "saved"))
                      /\ successfulDownloads' = successfulDownloads + 1
                      /\ UNCHANGED failedDownloads
                   \/ /\ outcome \in {"failed", "unsaved"} /\ mimeType = None
                      /\ imFiles' = IF outcome = "unsaved"
                                    THEN imFiles \cup {normalizePath(settings.imagesFolder)}
                                    ELSE imFiles
                      /\ updatedMovieShow' = With(updatedMovieShow, kind.link,
                                                  ArrayOf(imageUtils_createImageLink(url)))
                      /\ linkedPaths' = Append(linkedPaths, Linked(kind.type, url, "failed"))
                      /\ failedDownloads' = failedDownloads + 1
                      /\ UNCHANGED successfulDownloads
    /\ im_pc' = PcOfImage(k + 1)
    /\ UNCHANGED <<settings, imMovieShow, totalImages, imReturned, returnedInput>>
    /\ UNCHANGED <<faVars, nmVars, rvVars, fnVars, xtVars>>

\* The end of processImages: the last call of the progress callback and the
\* return of the copy.
FinishImages ==
    /\ im_pc = "final"
    /\ progressCalls' = Append(progressCalls,
                               [current |-> totalImages, total |-> totalImages])
    /\ imReturned' = Some(updatedMovieShow)
    /\ returnedInput' = FALSE
    /\ im_pc' = "done"
    /\ UNCHANGED <<imFiles, settings, imMovieShow, updatedMovieShow, totalImages,
                   processedImages, successfulDownloads, failedDownloads, linkedPaths>>
    /\ UNCHANGED <<faVars, nmVars, rvVars, fnVars, xtVars>>

ImNext ==
    \/ ProcessImages
    \/ \E k \in 1..Len(ImageKinds), outcome \in {"none", "saved", "failed", "unsaved"},
          mimeType \in MimeSamples :
          ProcessOneImage(k, outcome, mimeType)
    \/ FinishImages

-----------------------------------------------------------------------------
(* imageUtils.ts: the requests of downloadImage *)

maxRetries == 2
MaxCalls == 2

UrlSamples == {Chars("https://i/x.jpg"), Chars("http://i/b.png"), Chars("img/l.png")}
\* How a request ends: a response of status 200; a response of another
\* status, or a rejection that names one; a rejection whose message holds
\* one of the ERR_ codes of isNetworkError.
ResponseKinds == {"ok", "status", "network"}

\* Every failure counts as a network error.
everyErrorIsNetwork(kind) == TRUE
\* isNetworkError(error): the message of the error holds one of the ERR_
\* codes; the message of the timeout ("Timeout after {timeout}ms") holds none.
isNetworkError(kind) == kind = "network"

Call(url, requests, outcome) ==
    [url |-> url, requests |-> requests, errors |-> <<>>, outcome |-> outcome,
     thrown |-> "none"]
LastCall == dlCalls[Len(dlCalls)]
SetLastCall(c) == [dlCalls EXCEPT ![Len(dlCalls)] = c]

DlStart ==
    /\ dlQueue \in UNION {[1..k -> UrlSamples] : k \in 1..MaxCalls}
    /\ dlCalls = <<>>
    /\ dlAttempt = 0
    /\ awaited = 0
    /\ inFlight = {}
    /\ requestCount = 0
    /\ dl_pc = "next"
DlIdle ==
    /\ dlQueue = <<>>
    /\ dlCalls = <<>>
    /\ dlAttempt = 0
    /\ awaited = 0
    /\ inFlight = {}
    /\ requestCount = 0
    /\ dl_pc = "idle"

\* requestUrl({url, method: "GET"}) wrapped in withTimeout: one more request
\* is out, and the call awaits it.
SendRequest ==
    /\ requestCount' = requestCount + 1
    /\ inFlight' = inFlight \cup {requestCount + 1}
    /\ awaited' = requestCount + 1
    /\ dl_pc' = "await"

\* processImages awaits downloadAndSaveImage for the next image: a URL that
\* is not a valid HTTP(S) one is returned as it is; else downloadImage sends
\* the request of its first attempt.
DownloadAndSaveImage ==
    /\ dl_pc = "next"
    /\ dlQueue # <<>>
    /\ dlQueue' = Tail(dlQueue)
    /\ IF ~isValidImageUrl(Head(dlQueue))
       THEN /\ dlCalls' = Append(dlCalls, Call(Head(dlQueue), 0, "url"))
            /\ UNCHANGED <<dlAttempt, awaited, inFlight, requestCount, dl_pc>>
       ELSE /\ dlCalls' = Append(dlCalls, Call(Head(dlQueue), 1, "pending"))
            /\ dlAttempt' = 1
            /\ SendRequest
    /\ UNCHANGED dlRest

\* The catch block of an attempt: the error is kept as lastError; the last
\* attempt, or an error that is no network error, ends the loop and the
\* error is thrown; else the delay before the next attempt starts.
AttemptFailed(kind) ==
    IF dlAttempt = maxRetries \/ ~isNetworkError(kind)
    THEN /\ dlCalls' = SetLastCall([LastCall EXCEPT
                           !.errors = Append(@, kind), !.outcome = "thrown",
                           !.thrown = kind])
         /\ dlAttempt' = 0
         /\ dl_pc' = "next"
    ELSE /\ dlCalls' = SetLastCall([LastCall EXCEPT !.errors = Append(@, kind)])
         /\ dl_pc' = "delay"
         /\ UNCHANGED dlAttempt

\* A request ends.  The call that awaits it goes on: a response of status
\* 200 is returned, anything else is the failure of the attempt.  A request
\* nobody awaits any more ends without effect.
RequestEnds(id, kind) ==
    /\ id \in inFlight
    /\ inFlight' = inFlight \ {id}
    /\ IF dl_pc = "await" /\ id = awaited
       THEN /\ awaited' = 0
            /\ IF kind = "ok"
               THEN /\ dlCalls' = SetLastCall([LastCall EXCEPT !.outcome = "data"])
                    /\ dlAttempt' = 0
                    /\ dl_pc' = "next"
               ELSE AttemptFailed(kind)
       ELSE UNCHANGED <<dlCalls, dlAttempt, awaited, dl_pc>>
    /\ UNCHANGED <<dlQueue, requestCount>>
    /\ UNCHANGED dlRest

\* The timer of withTimeout fires before the request ends: Promise.race
\* rejects with the timeout error; the request itself is not cancelled.
TimeoutFires ==
    /\ dl_pc = "await"
    /\ awaited' = 0
    /\ AttemptFailed("timeout")
    /\ UNCHANGED <<dlQueue, inFlight, requestCount>>
    /\ UNCHANGED dlRest

\* The delay before the next attempt is over: the request is sent again.
RetryAfterDelay ==
    /\ dl_pc = "delay"
    /\ dlAttempt' = dlAttempt + 1
    /\ dlCalls' = SetLastCall([LastCall EXCEPT !.requests = @ + 1])
    /\ SendRequest
    /\ UNCHANGED dlQueue
    /\ UNCHANGED dlRest

DlNext ==
    \/ DownloadAndSaveImage
    \/ \E id \in 1..(maxRetries * MaxCalls), kind \in ResponseKinds : RequestEnds(id, kind)
    \/ TimeoutFires
    \/ RetryAfterDelay

-----------------------------------------------------------------------------
(* ApiValidator.ts and provider.ts: the requests to the API *)

MIN_QUERY_LENGTH == 1
MAX_QUERY_LENGTH == 200
MIN_TOKEN_LENGTH == 10
MAX_TOKEN_LENGTH == 100
MIN_MOVIE_ID == 1
MAX_MOVIE_ID == 99999999

\* /^[A-Za-z0-9\-_]+$/
TokenChars == LowerLetters \cup UpperLetters \cup Digits \cup {"-", "_"}

\* A token is taken when its length is right, whatever its characters.
isValidTokenByLength(token) ==
    /\ Len(Trim(token)) >= MIN_TOKEN_LENGTH
    /\ Len(Trim(token)) <= MAX_TOKEN_LENGTH
isValidToken(token) ==
    LET trimmedToken == Trim(token)
    IN  /\ trimmedToken # <<>>
        /\ Len(trimmedToken) >= MIN_TOKEN_LENGTH
        /\ Len(trimmedToken) <= MAX_TOKEN_LENGTH
        /\ \A i \in 1..Len(trimmedToken) : trimmedToken[i] \in TokenChars

ContainsIgnoreCase(s, pat) == \E i \in 1..Len(s) : MatchAtIgnoreCase(s, pat, i)
\* /on\w+=/i
HasHandlerAttribute(s) ==
    \E i \in 1..Len(s) : \E j \in (i + 3)..Len(s) :
        /\ MatchAtIgnoreCase(s, Chars("on"), i)
        /\ s[j] = "="
        /\ \A k \in (i + 2)..(j - 1) : s[k] \in WordChars
isValidSearchQuery(query) ==
    LET trimmedQuery == Trim(query)
    IN  /\ trimmedQuery # <<>>
        /\ Len(trimmedQuery) >= MIN_QUERY_LENGTH
        /\ Len(trimmedQuery) <= MAX_QUERY_LENGTH
        /\ ~ContainsIgnoreCase(trimmedQuery, Chars("<script"))
        /\ ~ContainsIgnoreCase(trimmedQuery, Chars("javascript:"))
        /\ ~HasHandlerAttribute(trimmedQuery)
        /\ ~Contains(trimmedQuery, Chars("<%"))
        /\ ~Contains(trimmedQuery, Chars("%>"))

\* A number is an integer (t = "number"), a fraction or NaN.
isValidMovieId(id) ==
    /\ id.t = "number"
    /\ id.v >= MIN_MOVIE_ID
    /\ id.v <= MAX_MOVIE_ID

Repeat(c, n) == [i \in 1..n |-> c]
TokenSamples ==
    { <<>>, Chars("abcdefghi"), Chars("ABC-def_09"), Chars(" ABC-def_09\n"),
      Chars("abcdefghi!"), Chars("abc defghi"), Repeat("a", 100), Repeat("a", 101) }
QuerySamples ==
    { <<>>, Chars(" "), Chars(" dune "), Chars("<SCRIPT>x"), Chars("a onload=1"),
      Chars("JavaScript:1"), Chars("<%"), Chars("on="), Repeat("q", 200), Repeat("q", 201) }
IdSamples ==
    << NumberOf(0), NumberOf(1), NumberOf(326), NumberOf(99999999), NumberOf(100000000),
       NumberOf(-1), [t |-> "fraction", v |-> 1], [t |-> "NaN", v |-> 0] >>

PvStart ==
    /\ pvCall = None
    /\ pvRequests = <<>>
    /\ pvResult = None
    /\ pv_pc = "ready"
PvIdle ==
    /\ pvCall = None
    /\ pvRequests = <<>>
    /\ pvResult = None
    /\ pv_pc = "idle"

\* apiGet up to its await: an invalid token throws; else the request goes
\* out with the trimmed token in the X-API-KEY header.
ApiGet(endpoint, token, params) ==
    IF ~isValidToken(token)
    THEN /\ pvResult' = Some("error")
         /\ pv_pc' = "done"
         /\ UNCHANGED pvRequests
    ELSE /\ pvRequests' = Append(pvRequests,
                [endpoint |-> endpoint, key |-> Trim(token), params |-> params,
                 response |-> "pending"])
         /\ pv_pc' = "await"
         /\ UNCHANGED pvResult

SearchByQuery(query, token) ==
    /\ pv_pc = "ready"
    /\ pvCall' = Some([op |-> "searchByQuery", token |-> token, query |-> query,
                       id |-> NumberOf(0)])
    /\ IF ~isValidSearchQuery(query)
       THEN /\ pvResult' = Some("error")
            /\ pv_pc' = "done"
            /\ UNCHANGED pvRequests
       ELSE ApiGet("/movie/search", token, Trim(query))
    /\ UNCHANGED pvRest

GetMovieById(id, token) ==
    /\ pv_pc = "ready"
    /\ pvCall' = Some([op |-> "getMovieById", token |-> token, query |-> <<>>, id |-> id])
    /\ IF ~isValidMovieId(id) \/ ~isValidToken(token)
       THEN /\ pvResult' = Some("error")
            /\ pv_pc' = "done"
            /\ UNCHANGED pvRequests
       ELSE ApiGet("/movie/id", token, NatToChars(id.v))
    /\ UNCHANGED pvRest

ValidateToken(token) ==
    /\ pv_pc = "ready"
    /\ pvCall' = Some([op |-> "validateToken", token |-> token, query |-> <<>>,
                       id |-> NumberOf(0)])
    /\ IF ~isValidToken(token)
       THEN /\ pvResult' = Some("false")
            /\ pv_pc' = "done"
            /\ UNCHANGED pvRequests
       ELSE ApiGet("/movie", token, Chars("page=1&limit=1"))
    /\ UNCHANGED pvRest

\* The request ends: with a body that holds what was asked for ("ok"), with
\* an empty body or an empty list ("empty"), or it fails ("failed").
ApiResponds(kind) ==
    /\ pv_pc = "await"
    /\ pvResult' = Some(CASE Val(pvCall).op = "validateToken" ->
                               (IF kind = "failed" THEN "false" ELSE "true")
                          [] kind = "ok" -> "value"
                          [] OTHER -> "error")
    /\ pv_pc' = "done"
    /\ pvRequests' = [pvRequests EXCEPT ![Len(pvRequests)].response = kind]
    /\ UNCHANGED pvCall
    /\ UNCHANGED pvRest

PvNext ==
    \/ \E query \in QuerySamples, token \in TokenSamples : SearchByQuery(query, token)
    \/ \E i \in 1..Len(IdSamples), token \in TokenSamples : GetMovieById(IdSamples[i], token)
    \/ \E token \in TokenSamples : ValidateToken(token)
    \/ \E kind \in {"ok", "empty", "failed"} : ApiResponds(kind)

-----------------------------------------------------------------------------
(* search_modal.ts: the searches of SearchModal *)

MaxSearches == 3

ModalTokens == { <<>>, Chars("ABC-def_09"), Chars("abcdefghi!") }
ModalQueries == { <<>>, Chars(" "), Chars(" dune "), Chars("solaris"), Chars("<%") }

\* The check of the fields alone: a search may start while another runs.
fieldsAreFilled(q, tok, busy) == Trim(q) # <<>> /\ Trim(tok) # <<>>
validateInput(q, tok, busy) ==
    /\ Trim(q) # <<>>
    /\ Trim(tok) # <<>>
    /\ ~busy

SmStart ==
    /\ isBusy = FALSE
    /\ smQuery = <<>>
    /\ smToken \in ModalTokens
    /\ smOpen = TRUE
    /\ smInFlight = 0
    /\ searchCalls = 0
    /\ callbackCalls = 0
    /\ searchesEnded = 0
SmIdle ==
    /\ isBusy = FALSE
    /\ smQuery = <<>>
    /\ smToken = <<>>
    /\ smOpen = FALSE
    /\ smInFlight = 0
    /\ searchCalls = 0
    /\ callbackCalls = 0
    /\ searchesEnded = 0

\* The text field's onChange; setBusy(true) disables the field.
SetQuery(q) ==
    /\ smOpen
    /\ ~isBusy
    /\ q # smQuery
    /\ smQuery' = q
    /\ UNCHANGED <<isBusy, smToken, smOpen, smInFlight, searchCalls, callbackCalls, searchesEnded>>
    /\ UNCHANGED smRest

\* search() up to its await.  searchByQuery rejects before any request when
\* the query or the token is invalid; the catch and the finally blocks then
\* run before any other event.
Search ==
    /\ smOpen
    /\ searchCalls < MaxSearches
    /\ searchCalls' = searchCalls + 1
    /\ IF ~validateInput(smQuery, smToken, isBusy)
       THEN UNCHANGED <<isBusy, smInFlight, callbackCalls, searchesEnded>>
       ELSE IF ~isValidSearchQuery(Trim(smQuery)) \/ ~isValidToken(smToken)
       THEN /\ callbackCalls' = callbackCalls + 1
            /\ isBusy' = FALSE
            /\ searchesEnded' = searchesEnded + 1
            /\ UNCHANGED smInFlight
       ELSE /\ isBusy' = TRUE
            /\ smInFlight' = smInFlight + 1
            /\ UNCHANGED <<callbackCalls, searchesEnded>>
    /\ UNCHANGED <<smQuery, smToken, smOpen>>
    /\ UNCHANGED smRest

\* A search request ends; search() runs on from its await: the callback and
\* close() on results, handleSearchError otherwise, then setBusy(false).
SearchResponds(kind) ==
    /\ smInFlight > 0
    /\ smInFlight' = smInFlight - 1
    /\ callbackCalls' = callbackCalls + 1
    /\ smOpen' = IF kind = "ok" THEN FALSE ELSE smOpen
    /\ isBusy' = FALSE
    /\ searchesEnded' = searchesEnded + 1
    /\ UNCHANGED <<smQuery, smToken, searchCalls>>
    /\ UNCHANGED smRest

SmNext ==
    \/ \E q \in ModalQueries : SetQuery(q)
    \/ Search
    \/ \E kind \in {"ok", "empty", "failed"} : SearchResponds(kind)

-----------------------------------------------------------------------------
(* main.ts: the workflows of createNewNote *)

\* The workflows that run at once, at most.
MaxWorkflows == 2
Workflows == 1..MaxWorkflows

RECURSIVE firstFreeCopyName(_, _, _, _, _)
\* The do-while loop of makeFileName.
firstFreeCopyName(files, folder, cleaned, lang, n) ==
    IF existsInVault(files, folder, copyFileNameOf(cleaned, lang, n))
    THEN firstFreeCopyName(files, folder, cleaned, lang, n + 1)
    ELSE copyFileNameOf(cleaned, lang, n)

\* makeFileName, which runs from its call to its return with no await.
makeFileName(files, movieShow, format, folder, lang) ==
    LET base == baseNameOf(movieShow, format, lang)
        cleaned == replaceIllegalFileNameCharactersInString(base.value)
    IN  IF base.threw \/ Trim(cleaned) = <<>> THEN unknownFileName(lang)
        ELSE IF ~existsInVault(files, folder, cleaned \o Chars(".md"))
        THEN cleaned \o Chars(".md")
        ELSE firstFreeCopyName(files, folder, cleaned, lang, 1)

\* `${folderPath}/${fileName}`, as vault.create normalizes it.
filePathOf(folder, name) ==
    normalizePath((IF Has(folder) THEN Val(folder) ELSE Chars("undefined"))
                  \o <<"/">> \o name)

NoteFolders == { Some(<<>>), Some(Chars("Films")) }
NotePaths == { Chars("Inception (2010).md"), Chars("Films/Inception (2010).md") }

NtStart ==
    /\ ntVault \in SUBSET NotePaths
    /\ ntFolder \in NoteFolders
    /\ ntMovie \in [Workflows -> 1..2]
    /\ ntFileName = [w \in Workflows |-> None]
    /\ nt_pc = [w \in Workflows |-> "rendered"]
NtIdle ==
    /\ ntVault = {}
    /\ ntFolder = None
    /\ ntMovie = <<>>
    /\ ntFileName = <<>>
    /\ nt_pc = <<>>

\* createNewNote from the end of getRenderedContents to the await of
\* makeFileName's promise.
NameNote(w) ==
    /\ nt_pc[w] = "rendered"
    /\ ntFileName' = [ntFileName EXCEPT
            ![w] = Some(makeFileName(ntVault, MovieSamples[ntMovie[w]], None, ntFolder, "en"))]
    /\ nt_pc' = [nt_pc EXCEPT ![w] = "named"]
    /\ UNCHANGED <<ntVault, ntFolder, ntMovie>>
    /\ UNCHANGED ntRest

\* createNewNote on from that await: vault.create, which throws when the
\* path is taken.
CreateNote(w) ==
    /\ nt_pc[w] = "named"
    /\ LET filePath == filePathOf(ntFolder, Val(ntFileName[w]))
       IN  IF filePath \in ntVault
           THEN /\ nt_pc' = [nt_pc EXCEPT ![w] = "failed"]
                /\ UNCHANGED ntVault
           ELSE /\ nt_pc' = [nt_pc EXCEPT ![w] = "created"]
                /\ ntVault' = ntVault \cup {filePath}
    /\ UNCHANGED <<ntFolder, ntMovie, ntFileName>>
    /\ UNCHANGED ntRest

NtNext ==
    \/ \E w \in Workflows : NameNote(w)
    \/ \E w \in Workflows : CreateNote(w)

-----------------------------------------------------------------------------
(* search_modal.ts: the token validation of the settings tab *)

\* The edits of the token field and the clicks on the check button, at most.
MaxTokenEdits == 2

\* What the user types into the token field.
TypedTokens == { <<>>, Chars("abc"), Chars("ABC-def_09"), Chars(" abcdefghij") }

StStart ==
    /\ apiToken = <<>>
    /\ apiTokenValid = FALSE
    /\ validationTimeout = None
    /\ stSaving = <<>>
    /\ validations = <<>>
    /\ lastSuccess = None
    /\ tokenEdits = 0
    /\ manualChecks = 0
StIdle ==
    /\ apiToken = <<>>
    /\ apiTokenValid = FALSE
    /\ validationTimeout = None
    /\ stSaving = <<>>
    /\ validations = <<>>
    /\ lastSuccess = None
    /\ tokenEdits = 0
    /\ manualChecks = 0

RemoveAt(seq, i) == SubSeq(seq, 1, i - 1) \o SubSeq(seq, i + 1, Len(seq))

\* The token field's onChange up to its await of saveSettings.
EditToken(value) ==
    /\ tokenEdits < MaxTokenEdits
    /\ Trim(value) # apiToken
    /\ tokenEdits' = tokenEdits + 1
    /\ apiToken' = Trim(value)
    /\ apiTokenValid' = FALSE
    /\ stSaving' = Append(stSaving, Trim(value))
    /\ UNCHANGED <<validationTimeout, validations, lastSuccess, manualChecks>>
    /\ UNCHANGED stRest

\* onChange on from that await: validateTokenWithDelay clears the timer and
\* arms it for the token typed; an empty token only clears it.
SettingsSaved(i) ==
    /\ i \in 1..Len(stSaving)
    /\ validationTimeout' = IF stSaving[i] # <<>> THEN Some(stSaving[i]) ELSE None
    /\ stSaving' = RemoveAt(stSaving, i)
    /\ UNCHANGED <<apiToken, apiTokenValid, validations, lastSuccess, tokenEdits, manualChecks>>
    /\ UNCHANGED stRest

\* The timer's callback up to its await of validateToken.
TimerFires ==
    /\ Has(validationTimeout)
    /\ validations' = Append(validations, [token |-> Val(validationTimeout), by |-> "timer"])
    /\ validationTimeout' = None
    /\ UNCHANGED <<apiToken, apiTokenValid, stSaving, lastSuccess, tokenEdits, manualChecks>>
    /\ UNCHANGED stRest

\* The check button's onClick up to its await of validateToken; the button
\* is disabled until the handler ends.
CheckToken ==
    /\ manualChecks < MaxTokenEdits
    /\ \A i \in 1..Len(validations) : validations[i].by # "button"
    /\ manualChecks' = manualChecks + 1
    /\ validations' = IF Trim(apiToken) = <<>> THEN validations
                      ELSE Append(validations, [token |-> Trim(apiToken), by |-> "button"])
    /\ UNCHANGED <<apiToken, apiTokenValid, validationTimeout, stSaving, lastSuccess, tokenEdits>>
    /\ UNCHANGED stRest

\* validateToken returns; the handler that awaited it stores the answer.
\* The answer is false for a token that isValidToken rejects.
ValidationEnds(i, isValid) ==
    /\ i \in 1..Len(validations)
    /\ isValid => isValidToken(validations[i].token)
    /\ apiTokenValid' = isValid
    /\ lastSuccess' = IF isValid THEN Some(validations[i].token) ELSE lastSuccess
    /\ validations' = RemoveAt(validations, i)
    /\ UNCHANGED <<apiToken, validationTimeout, stSaving, tokenEdits, manualChecks>>
    /\ UNCHANGED stRest

StNext ==
    \/ \E value \in TypedTokens : EditToken(value)
    \/ \E i \in 1..MaxTokenEdits : SettingsSaved(i)
    \/ TimerFires
    \/ CheckToken
    \/ \E i \in 1..(2 * MaxTokenEdits), isValid \in BOOLEAN : ValidationEnds(i, isValid)

-----------------------------------------------------------------------------
(* Calls of formatArray on bounded inputs *)

\* Free entries at the head of an input array; the last one may then repeat.
MaxPrefix == 2
\* The longest input array: one more than MAX_ARRAY_ITEMS is needed to truncate.
MaxRun == 16

ItemSamples ==
    { None, Some(<<>>), Some(Chars(" \n")), Some(Chars("a:b:")), Some(Chars(" x \n y")) }
MaxItemsSamples == {0, 1, MAX_FACTS_COUNT, MAX_ARRAY_ITEMS}

FaStart ==
    /\ items = <<>>
    /\ formatType = "short"
    /\ maxItems = MAX_ARRAY_ITEMS
    /\ result = <<>>
    /\ fa_pc = "input"

\* The caller builds the array.
FaPush(it) ==
    /\ fa_pc = "input"
    /\ \/ Len(items) < MaxPrefix
       \/ Len(items) < MaxRun /\ items # <<>> /\ it = items[Len(items)]
    /\ items' = Append(items, it)
    /\ UNCHANGED <<formatType, maxItems, result, fa_pc>>
    /\ UNCHANGED <<nmVars, rvVars, fnVars, imVars, xtVars>>

FaCall(type, max) ==
    /\ fa_pc = "input"
    /\ formatType' = type
    /\ maxItems' = max
    /\ result' = formatArray(items, type, max)
    /\ fa_pc' = "done"
    /\ UNCHANGED items
    /\ UNCHANGED <<nmVars, rvVars, fnVars, imVars, xtVars>>

FaNext ==
    \/ \E it \in ItemSamples : FaPush(it)
    \/ \E type \in FormatTypes, max \in MaxItemsSamples : FaCall(type, max)

FaIdle ==
    /\ items = <<>>
    /\ formatType = "short"
    /\ maxItems = MAX_ARRAY_ITEMS
    /\ result = <<>>
    /\ fa_pc = "idle"

CoreIdle == FaIdle /\ NmIdle /\ RvIdle /\ FnIdle /\ ImIdle
XtIdle == DlIdle /\ PvIdle /\ SmIdle /\ NtIdle /\ StIdle

InitFormat == FaStart /\ NmIdle /\ RvIdle /\ FnIdle /\ ImIdle /\ XtIdle
SpecFormat == InitFormat /\ [][FaNext]_vars

InitNormalize == NmStart /\ FaIdle /\ RvIdle /\ FnIdle /\ ImIdle /\ XtIdle
SpecNormalize == InitNormalize /\ [][NmNext]_vars

InitRender == RvStart /\ FaIdle /\ NmIdle /\ FnIdle /\ ImIdle /\ XtIdle
SpecRender == InitRender /\ [][RvNext]_vars

InitSubstitute == SbStart /\ FaIdle /\ NmIdle /\ FnIdle /\ ImIdle /\ XtIdle
SpecSubstitute == InitSubstitute /\ [][SbNext]_vars

InitImages == ImStart /\ FaIdle /\ NmIdle /\ RvIdle /\ FnIdle /\ XtIdle
SpecImages == InitImages /\ [][ImNext]_vars

InitDownload == DlStart /\ CoreIdle /\ PvIdle /\ SmIdle /\ NtIdle /\ StIdle
SpecDownload == InitDownload /\ [][DlNext]_vars

InitProvider == PvStart /\ CoreIdle /\ DlIdle /\ SmIdle /\ NtIdle /\ StIdle
InitSearch == SmStart /\ CoreIdle /\ DlIdle /\ PvIdle /\ NtIdle /\ StIdle
InitNotes == NtStart /\ CoreIdle /\ DlIdle /\ PvIdle /\ SmIdle /\ StIdle
InitSettings == StStart /\ CoreIdle /\ DlIdle /\ PvIdle /\ SmIdle /\ NtIdle
SpecSettings == InitSettings /\ [][StNext]_vars
SpecNotes == InitNotes /\ [][NtNext]_vars
SpecSearch == InitSearch /\ [][SmNext]_vars
SpecProvider == InitProvider /\ [][PvNext]_vars

InitFileName == FnStart /\ FaIdle /\ NmIdle /\ RvIdle /\ ImIdle /\ XtIdle
SpecFileName == InitFileName /\ [][FnNext]_vars
\* The loop of makeFileName holds no await: a turn that can run does run.
SpecFileNameFair == SpecFileName /\ WF_vars(TryCopyName)

IsBlankItem(it) == ~Has(it) \/ Trim(Val(it)) = <<>>

\* C3: formatArray returns at most maxItems entries (15 by default), and none
\* when every input entry is null, empty or white space only.
C3_FormatArrayLength ==
    fa_pc = "done" =>
        /\ Len(result) <= maxItems
        /\ (\A i \in 1..Len(items) : IsBlankItem(items[i])) => result = <<>>

C3_Witness ==
    /\ fa_pc = "done"
    /\ maxItems = MAX_ARRAY_ITEMS
    /\ Len(items) > MAX_ARRAY_ITEMS
    /\ Len(result) = MAX_ARRAY_ITEMS

-----------------------------------------------------------------------------
(* Claims about replaceVariableSyntax *)

\* A header block that names the genres, their links and the year, closed
\* by a delimiter line, and a body that names the same three.
DualTemplate == HeaderBlock \o Chars("\n") \o Placeholders

CommaJoin(strs) == Join(strs, Chars(", "))
YearText(movieShow) ==
    LET y == Get(movieShow, "year")
    IN  IF y.t = "number" THEN NatToChars(y.v) ELSE <<>>

C6_NoPlaceholderInOutput ==
    (rv_pc = "done" /\ Has(record))
        => \A i \in 1..Len(rendered.value) : TokenLenAt(rendered.value, i) = 0

\* The lines of a text start at 1 and after each line feed.
LineStarts(text) == {1} \cup {i + 1 : i \in {j \in 1..Len(text) : text[j] = "\n"}}
LineAt(text, s) ==
    LET ends == {i \in s..Len(text) : text[i] = "\n"}
    IN  SubSeq(text, s, IF ends = {} THEN Len(text) ELSE SetMin(ends) - 1)
IsDelimiterLine(text, s) == s <= Len(text) /\ LineAt(text, s) = Chars("---")
ClosingLines(text) == {s \in LineStarts(text) : s > 1 /\ IsDelimiterLine(text, s)}

\* The render the specification describes: split at the first and the next
\* line of exactly three hyphens, the header in the quoted encoding and the
\* rest in the plain one; without such lines the whole text in the plain one.
RenderSplitAtDelimiterLines(movieShow, text) ==
    IF IsDelimiterLine(text, 1) /\ ClosingLines(text) # {}
    THEN LET s == SetMin(ClosingLines(text))
             header == reduceQuoted(movieShow, 1, Returned(SubSeq(text, 5, s - 2)))
             body == reducePlain(movieShow, 1, Returned(SubSeq(text, s + 4, Len(text))))
         IN  removeUnusedVariables(Chars("---\n") \o header.value
                                     \o Chars("\n---\n") \o body.value)
    ELSE removeUnusedVariables(reducePlain(movieShow, 1, Returned(text)).value)

Squash(text) == RemoveChars(text, WhiteSpace)

\* C7: a template is split into header and body exactly when it begins with
\* a line of three hyphens and a later line of exactly three hyphens closes
\* the block; the header is rendered quoted and the rest plain, and in every
\* other case the whole template is rendered plain.  (White space apart.)
C7_SplitExactlyAtDelimiterLines ==
    (rv_pc = "done" /\ Has(record))
        => Squash(rendered.value)
              = Squash(RenderSplitAtDelimiterLines(Val(record), template))

\* C8: replaceVariableSyntax never raises; when the encoding of one field
\* fails the other fields are substituted as if the record did not have that
\* field, and when the whole render fails the text comes back as it was.
C8_NeverRaises ==
    rv_pc = "done"
        => /\ ~rendered.threw
           /\ (~Has(record) /\ Trim(template) # <<>>) => rendered.value = template
           /\ (Has(record) /\ Get(Val(record), "year").t = "object")
                 => rendered.value =
                       replaceVariableSyntax(Some(Without(Val(record), {"year"})),
                                             template).value

C8_Witness ==
    /\ rv_pc = "done" /\ Has(record)
    /\ Get(Val(record), "year").t = "object"
    /\ template = DualTemplate
    /\ ~rendered.threw
    /\ rendered.value =
          Chars("---\ng: Action, Drama\nl: \"[[Action]]\", \"[[Drama]]\"\ny: \n---\n")
            \o Chars("Action, Drama|[[Action]], [[Drama]]|")

\* On a record that is null the whole render fails and the template comes
\* back unchanged, unresolved placeholders included.
C8_WitnessTotalFailure ==
    /\ rv_pc = "done" /\ ~Has(record)
    /\ template = DualTemplate
    /\ rendered = Returned(template)

-----------------------------------------------------------------------------
(* Claims about makeFileName *)

\* The name of the k-th copy as the specification writes it.
NumberedCopy(base, word, k) ==
    base \o Chars(" (") \o word \o Chars("[") \o NatToChars(k) \o Chars("]).md")

CopyWord(lang) == IF lang = "ru" THEN t("ru", "utils.copyPrefix") ELSE Chars("Copy")

CopyTaken(k) ==
    existsInVault(vault, folderPath,
                  NumberedCopy(Val(cleanedBaseName), CopyWord(currentLanguage), k))

\* C9: when '<base>.md' exists already, makeFileName returns
\* '<base> (<copy>[k]).md' for the smallest k >= 1 whose name does not exist,
\* having tried 1, 2, ... in increasing order; with only 'Inception (2010).md'
\* in the vault it returns 'Inception (2010) (Copy[1]).md'.
C9_SmallestFreeCopyNumber ==
    /\ fn_pc = "loop" => \A k \in 1..(copyNumber - 1) : CopyTaken(k)
    /\ (/\ fn_pc = "done" /\ Has(cleanedBaseName)
        /\ Trim(Val(cleanedBaseName)) # <<>>
        /\ existsInVault(vault, folderPath, Val(cleanedBaseName) \o Chars(".md")))
          => \E k \in 1..(Cardinality(vault) + 1) :
                /\ fileName = Some(NumberedCopy(Val(cleanedBaseName),
                                                CopyWord(currentLanguage), k))
                /\ ~CopyTaken(k)
                /\ \A j \in 1..(k - 1) : CopyTaken(j)
                /\ copyNumber = k + 1
    /\ (/\ fn_pc = "done" /\ currentLanguage = "en" /\ folderPath = None
        /\ cleanedBaseName = Some(Chars("Inception (2010)"))
        /\ vault = {Chars("Inception (2010).md")})
          => fileName = Some(Chars("Inception (2010) (Copy[1]).md"))

C9_Witness ==
    /\ fn_pc = "done" /\ currentLanguage = "en" /\ folderPath = None
    /\ vault = {Chars("Inception (2010).md"), Chars("Inception (2010) (Copy[1]).md")}
    /\ copyNumber = 3
    /\ fileName = Some(Chars("Inception (2010) (Copy[2]).md"))

\* C10: whatever the record and the name format, the name makeFileName
\* returns ends in '.md', what precedes '.md' holds none of \ / : * ? " < > |,
\* and when the stripping leaves an empty or blank base the name is the
\* localized Unknown placeholder followed by '.md'.
C10_FileNameIsLegal ==
    fn_pc = "done"
        => /\ Has(fileName)
           /\ EndsWith(Val(fileName), Chars(".md"))
           /\ \A i \in 1..(Len(Val(fileName)) - 3) :
                 Val(fileName)[i] \notin {"\\", "/", ":", "*", "?", "\"", "<", ">", "|"}
           /\ (/\ Has(baseName)
               /\ Trim(RemoveChars(Val(baseName),
                                   {"\\", "/", ":", "*", "?", "\"", "<", ">", "|"})) = <<>>)
                 => Val(fileName)
                       = (IF currentLanguage = "en" THEN Chars("Unknown Movie")
                          ELSE t("ru", "utils.unknownMovie")) \o Chars(".md")

C10_Witness ==
    /\ fn_pc = "done" /\ currentLanguage = "en"
    /\ baseName = Some(Chars(":*?"))
    /\ cleanedBaseName = Some(<<>>)
    /\ fileName = Some(Chars("Unknown Movie.md"))

\* A name whose base lost its illegal characters and kept the rest.
C10_WitnessStripped ==
    /\ fn_pc = "done"
    /\ baseName = Some(Chars("2010: <Inception>?"))
    /\ fileName = Some(Chars("2010 Inception.md"))

\* C11: with finitely many paths in the vault the copy loop of makeFileName
\* ends: a call that entered the loop eventually returns a name, and no bound
\* on the counter is needed for it.
C11_CopyLoopTerminates ==
    (fn_pc = "loop") ~> (fn_pc = "done" /\ Has(fileName))

C11_Witness ==
    /\ fn_pc = "done" /\ currentLanguage = "en" /\ folderPath = None
    /\ Cardinality(vault) = 3
    /\ copyNumber = 4
    /\ fileName = Some(Chars("Inception (2010) (Copy[3]).md"))

-----------------------------------------------------------------------------
(* Claims about the image references and the dates of the normalized record *)

\* The token the specification gives for a URL: none when it is empty, the
\* remote one when it begins with http:// or https://, else the local one
\* with the directories stripped.
FileNameOnly(url) ==
    LET slashes == {i \in 1..Len(url) : url[i] = "/"}
    IN  IF slashes = {} THEN url ELSE SubSeq(url, SetMax(slashes) + 1, Len(url))
ImageTokenBySpec(url) ==
    IF Trim(url) = <<>> THEN <<>>
    ELSE IF StartsWith(url, Chars("http://")) \/ StartsWith(url, Chars("https://"))
         THEN << Chars("![](") \o url \o Chars(")") >>
         ELSE << Chars("![[") \o FileNameOnly(url) \o Chars("]]") >>

ImageFields ==
    << <<"poster", "posterImageLink">>, <<"backdrop", "coverImageLink">>,
       <<"logo", "logoImageLink">> >>

\* C12: for each of poster, backdrop and logo the image-reference field is
\* empty when the URL is empty, '![](<url>)' when the URL begins with an
\* HTTP(S) scheme, and otherwise '![[<file name>]]' with the directory path
\* stripped.
C12_ImageLinkByUrlKind ==
    (nm_pc = "done" /\ ~normalized.threw) =>
        \A i \in 1..Len(ImageFields) :
            Get(normalized.value, ImageFields[i][2]).v
                = ImageTokenBySpec(StrOrEmpty(Field(movieData[ImageFields[i][1]], "url")))

\* C13: for every string that the image step turns into an image link, the
\* token built by imageUtils createImageLink is the token that DataFormatter
\* createImageLink builds for the same string.
C13_SameTokenInBothModules ==
    \A i \in 1..Len(linkedPaths) :
        imageUtils_createImageLink(linkedPaths[i].path)
            = createImageLink(linkedPaths[i].path)

\* The formatted date the specification gives a source date: YYYY-MM-DD when
\* it parses to a date of a calendar year within 1800..2100, else empty.
YearInRange(src) ==
    /\ StrOrEmpty(src) # <<>>
    /\ Has(ParseDate(Val(src)))
    /\ Val(ParseDate(Val(src))).y \in 1800..2100
DateBySpec(src) == IF YearInRange(src) THEN <<toISODate(Val(ParseDate(Val(src))))>> ELSE <<>>

PremiereFields ==
    << <<"world", "premiereWorld">>, <<"russia", "premiereRussia">>,
       <<"digital", "premiereDigital">>, <<"cinema", "premiereCinema">> >>

\* C14: formatDate gives a non-empty YYYY-MM-DD exactly when its input parses
\* to a date of a calendar year within 1800..2100 (1800 and 2100 included,
\* 1799 and 2101 not), and the empty string for an absent or unparseable input.
C14_FormatDateByCalendarYear ==
    (nm_pc = "done" /\ ~normalized.threw) =>
        \A i \in 1..Len(PremiereFields) :
            Get(normalized.value, PremiereFields[i][2]).v
                = DateBySpec(Field(movieData.premiere, PremiereFields[i][1]))

\* C15: in every date-valued field of the normalized record a source date
\* that does not parse, or is out of range, gives the empty sequence and
\* never the source text.
C15_MalformedDateIsEmpty ==
    (nm_pc = "done" /\ ~normalized.threw) =>
        /\ \A i \in 1..Len(PremiereFields) :
               ~YearInRange(Field(movieData.premiere, PremiereFields[i][1]))
                   => Get(normalized.value, PremiereFields[i][2]).v = <<>>
        /\ ~YearInRange(Field(movieData.distributors, "distributorRelease"))
               => Get(normalized.value, "distributorRelease").v = <<>>

-----------------------------------------------------------------------------
(* Claims about the seasons, the facts and the names for files *)

SeasonsOf(raw) == IF Has(raw.seasonsInfo) THEN Val(raw.seasonsInfo) ELSE <<>>
EpisodesOf(raw) == Sum([i \in 1..Len(SeasonsOf(raw)) |-> SeasonsOf(raw)[i].episodesCount])
\* n is the least integer with n >= total / count
IsCeilingOf(n, total, count) == n * count >= total /\ (n - 1) * count < total

\* C16: seasonsCount is the number of season entries and seriesInSeasonCount
\* is the sum of their episode counts divided by their number, rounded up;
\* both are 0 when the season list is absent or empty.
C16_SeasonsCountAndAverage ==
    (nm_pc = "done" /\ ~normalized.threw) =>
        IF SeasonsOf(movieData) = <<>>
        THEN /\ Get(normalized.value, "seasonsCount").v = 0
             /\ Get(normalized.value, "seriesInSeasonCount").v = 0
        ELSE /\ Get(normalized.value, "seasonsCount").v = Len(SeasonsOf(movieData))
             /\ IsCeilingOf(Get(normalized.value, "seriesInSeasonCount").v,
                            EpisodesOf(movieData), Len(SeasonsOf(movieData)))
C16_Witness ==
    /\ nm_pc = "done" /\ ~normalized.threw
    /\ [i \in 1..Len(SeasonsOf(movieData)) |-> SeasonsOf(movieData)[i].episodesCount]
           = <<10, 10, 11>>
    /\ Get(normalized.value, "seasonsCount").v = 3
    /\ Get(normalized.value, "seriesInSeasonCount").v = 11
C16_WitnessNoSeasons ==
    /\ nm_pc = "done" /\ ~normalized.threw
    /\ movieData.seasonsInfo = Some(<<>>)
    /\ Get(normalized.value, "seasonsCount").v = 0

RawFacts(raw) == IF Has(raw.facts) THEN Val(raw.facts) ELSE <<>>
IsSpoiler(fact) == Has(fact.spoiler) /\ Val(fact.spoiler)
\* The facts of the source that are not spoilers and have a text.
OpenFacts(raw) ==
    SelectSeq(RawFacts(raw), LAMBDA fact :
        ~IsSpoiler(fact) /\ Trim(StrOrEmpty(fact.value)) # <<>>)
\* The entry a fact gives in the facts field.
FactEntry(fact) == formatItem(stripHtmlTags(Val(fact.value)), "long")

RECURSIVE IsSubsequence(_, _)
IsSubsequence(a, b) ==
    IF a = <<>> THEN TRUE
    ELSE IF b = <<>> THEN FALSE
    ELSE IF a[1] = b[1] THEN IsSubsequence(Tail(a), Tail(b))
    ELSE IsSubsequence(a, Tail(b))

\* C17: the facts field holds no spoiler, holds at most 5 entries, keeps the
\* order of the source, and holds exactly 5 entries whenever the source has
\* at least 5 facts that are not spoilers and not empty.
C17_FactsFilteredAndCapped ==
    (nm_pc = "done" /\ ~normalized.threw) =>
        LET facts == Get(normalized.value, "facts").v
            open == OpenFacts(movieData)
        IN  /\ IsSubsequence(facts, [i \in 1..Len(open) |-> FactEntry(open[i])])
            /\ Len(facts) <= 5
            /\ Len(open) >= 5 => Len(facts) = 5

NameForFileFields == <<"nameForFile", "alternativeNameForFile", "enNameForFile">>
HasLinkSyntax(s) ==
    \E i \in 1..Len(s) - 1 : <<s[i], s[i + 1]>> \in {<<"[", "[">>, <<"]", "]">>}

\* C18: nameForFile, alternativeNameForFile and enNameForFile never hold a
\* double quote nor the link syntax [[ ]].
C18_NamesForFileAreBare ==
    (nm_pc = "done" /\ ~normalized.threw) =>
        \A i \in 1..Len(NameForFileFields) :
            LET s == Get(normalized.value, NameForFileFields[i]).v
            IN  (\A j \in 1..Len(s) : s[j] # "\"") /\ ~HasLinkSyntax(s)

-----------------------------------------------------------------------------
(* Claims about processImages *)

ImageLinkNames == {"posterImageLink", "coverImageLink", "logoImageLink"}
RemoteTokenOf(url) == << Chars("![](") \o url \o Chars(")") >>
IsAttempt(entry) == entry.outcome \in {"saved", "failed"}
\* The images processImages has to download: the setting is on and the URL
\* is an HTTP(S) one.
Downloadable ==
    {k \in 1..Len(ImageKinds) :
        /\ settings[ImageKinds[k].save]
        /\ isValidImageUrl(firstUrl(imMovieShow, ImageKinds[k].url))}

\* C19: the record processImages returns differs from the record given in
\* the three image links at most; the record given is never modified; and
\* when local saving is off or no image is to be downloaded, the record given
\* is returned as it is.
C19_OnlyImageLinksChange ==
    /\ [](im_pc = "done" =>
            /\ Has(imReturned)
            /\ Len(Val(imReturned)) = Len(imMovieShow)
            /\ \A i \in 1..Len(imMovieShow) :
                   imMovieShow[i].k \notin ImageLinkNames
                       => Val(imReturned)[i] = imMovieShow[i]
            /\ (~settings.saveImagesLocally \/ Downloadable = {})
                   => (returnedInput /\ Val(imReturned) = imMovieShow))
    /\ [][imMovieShow' = imMovieShow]_vars
C19_Witness ==
    /\ im_pc = "done" /\ ~returnedInput
    /\ Get(imMovieShow, "posterImageLink").v = <<Chars("![](https://i/x.jpg)")>>
    /\ Get(Val(imReturned), "posterImageLink").v
           = <<Chars("![[Inception_2010_poster.jpg]]")>>
    /\ Get(Val(imReturned), "posterUrl") = Get(imMovieShow, "posterUrl")
C19_WitnessSavingOff ==
    /\ im_pc = "done" /\ ~settings.saveImagesLocally /\ settings.savePosterImage
    /\ Get(imMovieShow, "posterUrl").v # <<>>
    /\ imReturned = Some(imMovieShow)
C19_WitnessNothingToDownload ==
    /\ im_pc = "done" /\ settings.saveImagesLocally /\ settings.saveLogoImage
    /\ Get(imMovieShow, "logoUrl").v = <<Chars("img/l.png")>>
    /\ Downloadable = {}
    /\ imReturned = Some(imMovieShow)

\* C20: when the download of an image fails processImages still returns a
\* record; the link of that image is the remote token of its URL; and every
\* image that is to be downloaded has been attempted.
C20_FailedDownloadKeepsRemoteLink ==
    (im_pc = "done" /\ failedDownloads > 0) =>
        /\ Has(imReturned)
        /\ \A i \in 1..Len(linkedPaths) :
               linkedPaths[i].outcome = "failed" =>
                   \E k \in 1..Len(ImageKinds) :
                       /\ ImageKinds[k].type = linkedPaths[i].image
                       /\ Get(Val(imReturned), ImageKinds[k].link).v
                              = RemoteTokenOf(firstUrl(imMovieShow, ImageKinds[k].url))
        /\ \A k \in Downloadable :
               \E i \in 1..Len(linkedPaths) :
                   linkedPaths[i].image = ImageKinds[k].type /\ IsAttempt(linkedPaths[i])
C20_Witness ==
    /\ im_pc = "done"
    /\ Len(linkedPaths) = 2
    /\ linkedPaths[1] = Linked("poster", Chars("https://i/x.jpg"), "failed")
    /\ linkedPaths[2].image = "cover" /\ linkedPaths[2].outcome = "saved"
    /\ Get(Val(imReturned), "posterImageLink").v = <<Chars("![](https://i/x.jpg)")>>
    /\ Get(Val(imReturned), "coverImageLink").v = <<Chars("![[Inception_2010_cover.png]]")>>

\* C30: every pair reported to the progress callback has 0 <= current <=
\* total, total being the number of images counted at the start; the images
\* processed are the successful plus the failed downloads; and at the end
\* the last report is (total, total) with successful + failed = total.
C30_ProgressWithinTotal ==
    /\ \A i \in 1..Len(progressCalls) :
           /\ 0 <= progressCalls[i].current
           /\ progressCalls[i].current <= progressCalls[i].total
           /\ progressCalls[i].total = totalImages
    /\ processedImages = successfulDownloads + failedDownloads
    /\ (im_pc = "done" /\ settings.saveImagesLocally) =>
           /\ progressCalls # <<>>
           /\ progressCalls[Len(progressCalls)]
                  = [current |-> totalImages, total |-> totalImages]
           /\ successfulDownloads + failedDownloads = totalImages
C30_Witness ==
    /\ im_pc = "done"
    /\ totalImages = 2 /\ successfulDownloads = 1 /\ failedDownloads = 1
    /\ [i \in 1..Len(progressCalls) |-> progressCalls[i].current] = <<1, 2, 2>>
    /\ Len(linkedPaths) = 3

-----------------------------------------------------------------------------
(* Further claims about makeFileName *)

\* C25: on every return of makeFileName (the plain name, a numbered copy,
\* the placeholder for an empty base, the placeholder after an exception)
\* no file of the name returned exists in the folder.
C25_ReturnedNameIsFree ==
    fn_pc = "done" => ~existsInVault(vault, folderPath, Val(fileName))

-----------------------------------------------------------------------------
(* Claims about the values substituted into a template *)

HasKey(movieShow, key) == \E i \in 1..Len(movieShow) : movieShow[i].k = key

RECURSIVE VerbatimFrom(_, _, _)
\* One pass over the text from index i: a placeholder of a property gives
\* the plain value of the property, as it is; any other placeholder gives
\* nothing; the values put in are not looked at again.
VerbatimFrom(movieShow, text, i) ==
    IF i > Len(text) THEN <<>>
    ELSE IF TokenLenAt(text, i) = 0
         THEN <<text[i]>> \o VerbatimFrom(movieShow, text, i + 1)
         ELSE LET key == SubSeq(text, i + 2, i + TokenLenAt(text, i) - 3)
                  names == {j \in 1..Len(movieShow) : Chars(movieShow[j].k) = key}
                  value == IF names = {} THEN <<>>
                           ELSE getPlainValueFromArray(movieShow[SetMin(names)].v).value
              IN  value \o VerbatimFrom(movieShow, text, i + TokenLenAt(text, i))

\* C28: the value of a property goes into the output as it is and is not
\* scanned again: in a template without header block the output is the text
\* with each placeholder replaced once by the value of its property.
C28_ValuesInsertedVerbatim ==
    (rv_pc = "done" /\ Has(record) /\ ~Has(frontmatterMatch(template)))
        => rendered.value = Trim(VerbatimFrom(Val(record), template, 1))

\* C29: a numeric property named in the header block and in the body of a
\* template gives the same decimal text in both, 0 included.
C29_NumberSameInHeaderAndBody ==
    (/\ rv_pc = "done" /\ Has(record)
     /\ template = RatingHeader \o RatingToken
     /\ Get(Val(record), "ratingKp").t = "number")
        => rendered.value
              = Chars("---\nr: ") \o NatToChars(Get(Val(record), "ratingKp").v)
                  \o Chars("\n---\n") \o NatToChars(Get(Val(record), "ratingKp").v)

-----------------------------------------------------------------------------
(* Claims about the requests of downloadImage *)

\* C21: the images are fetched one after the other: at every moment at most
\* one request is out, and the next request (of the next image, or of a
\* retry) is sent only after the one before has ended.
C21_OneRequestAtATime == Cardinality(inFlight) <= 1

C22_WitnessLocalPath ==
    /\ dlCalls # <<>> /\ dlCalls[1].url = Chars("img/l.png")
    /\ dlCalls[1].outcome = "url" /\ requestCount = 0

-----------------------------------------------------------------------------
(* Claims about the requests of KinopoiskProvider *)

\* Trimmed length 10..100, characters A-Z a-z 0-9 - _ only.
TokenFits(token) ==
    /\ Len(Trim(token)) \in 10..100
    /\ \A i \in 1..Len(Trim(token)) :
           Trim(token)[i] \in LowerLetters \cup UpperLetters \cup Digits \cup {"-", "_"}
IdFits(id) == id.t = "number" /\ id.v \in 1..99999999
InputFits(call) ==
    /\ TokenFits(call.token)
    /\ call.op = "searchByQuery" => isValidSearchQuery(call.query)
    /\ call.op = "getMovieById" => IdFits(call.id)

\* C24: every request carries a token that passes isValidToken; a call with
\* an invalid token, an invalid search query or an id outside the integers
\* 1..99999999 fails with an error before any request is sent; validateToken
\* never throws, and returns false for an invalid token and for a failed
\* request.
C24_NoRequestOnInvalidInput ==
    /\ \A i \in 1..Len(pvRequests) : TokenFits(pvRequests[i].key)
    /\ Has(pvCall) =>
         LET call == Val(pvCall)
         IN  /\ pvRequests # <<>> => InputFits(call)
             /\ ~InputFits(call) =>
                    /\ pv_pc = "done"
                    /\ pvResult = Some(IF call.op = "validateToken" THEN "false" ELSE "error")
             /\ call.op = "validateToken" =>
                    /\ pvResult # Some("error")
                    /\ pv_pc = "done" => pvResult \in {Some("true"), Some("false")}
                    /\ pvRequests # <<>> /\ pvRequests[1].response = "failed" =>
                           pvResult = Some("false")

C24_Witness ==
    /\ pv_pc = "done"
    /\ Val(pvCall).op = "getMovieById"
    /\ Val(pvCall).id.t = "fraction"
    /\ TokenFits(Val(pvCall).token)
    /\ pvRequests = <<>>
    /\ pvResult = Some("error")
C24_WitnessFailedValidation ==
    /\ pv_pc = "done"
    /\ Val(pvCall).op = "validateToken"
    /\ Len(pvRequests) = 1
    /\ pvRequests[1].response = "failed"
    /\ pvResult = Some("false")
C24_WitnessBadCharacter ==
    /\ pv_pc = "done"
    /\ Val(pvCall).op = "searchByQuery"
    /\ isValidSearchQuery(Val(pvCall).query)
    /\ Val(pvCall).token = Chars("abcdefghi!")
    /\ pvRequests = <<>>
    /\ pvResult = Some("error")

-----------------------------------------------------------------------------
(* Claims about the searches of SearchModal *)

\* C23: the modal never has two search requests in flight; a call of search()
\* while isBusy sends no request and calls no callback; after a search has
\* ended isBusy is false.
C23_OneSearchAtATime ==
    /\ [](smInFlight <= 1 /\ (isBusy <=> smInFlight = 1))
    /\ [][(searchCalls' # searchCalls /\ isBusy) =>
              (smInFlight' = smInFlight /\ callbackCalls' = callbackCalls)]_vars
    /\ [][searchesEnded' # searchesEnded => ~isBusy']_vars

\* search() was called while a search ran, and the running search then ended.
C23_Witness ==
    /\ searchCalls >= 2
    /\ searchesEnded = 1
    /\ callbackCalls = 1
    /\ smInFlight = 0
    /\ ~isBusy
    /\ validateInput(smQuery, smToken, FALSE)
C23_WitnessBusy ==
    /\ searchCalls = 2
    /\ isBusy
    /\ smInFlight = 1
    /\ callbackCalls = 0

-----------------------------------------------------------------------------
(* Claims about the workflows of createNewNote *)

\* C26: two workflows of createNewNote that overlap and have the same folder
\* and the same base name never obtain the same file name.
C26_OverlappingWorkflowsGetDistinctNames ==
    \A v, w \in Workflows :
        (v # w /\ ntMovie[v] = ntMovie[w] /\ Has(ntFileName[v]) /\ Has(ntFileName[w])) =>
            ntFileName[v] # ntFileName[w]

-----------------------------------------------------------------------------
(* Claims about the token validation of the settings tab *)

\* C27: apiTokenValid is true only if the last validation that ended with
\* success was made on the token now stored in settings.apiToken.
C27_ValidMeansCurrentTokenValidated ==
    apiTokenValid => lastSuccess = Some(apiToken)

====
